---- MODULE Spec2Model ----
(***************************************************************************)
(* Model of the dlovely-websocket connection state machine: the lib       *)
(* Connection (server and client role) and the SocketApp AppConnection.   *)
(* One connection, its transport and its peer are modelled.  Bytes are    *)
(* integers 0..255; a received buffer is a sequence of bytes.             *)
(*                                                                         *)
(* Abstraction of the HTTP text: every handshake line is written as ONE   *)
(* byte (its code, see LineName/LineValue) and lines are separated by the *)
(* real bytes CR (13) and LF (10), so the search for CR LF CR LF and the  *)
(* split into lines are modelled byte by byte.                            *)
(***************************************************************************)
EXTENDS Integers, Sequences, FiniteSets, TLC

\* ---------------------------------------------------------------- bounds
\* Number of items (handshakes, frames) the peer sends in one run.
MaxItems == 3
\* Number of calls the local application makes on the connection API.
MaxCalls == 2
\* Number of close() calls in the runs of the life cycle.
MaxCloses == 1
\* Connection.maxBufferLength, scaled down (settable: setMaxBufferLength).
maxBufferLength == 23
\* Connection.binaryFragmentation, scaled down (settable).
binaryFragmentation == 2
\* Number of chunks the application writes to OutStreams in one run.
MaxWrites == 2

\* ------------------------------------------------------ program constants
CONNECTING == 0
OPEN == 1
CLOSING == 2
CLOSED == 3

CR == 13
LF == 10

\* The value of an optional string argument that was not passed.  A close
\* code that was not passed is written 0: the code only tests it for truth.
undefined == <<-1>>

Kinds == {"server", "client", "app"}

\* --------------------------------------------------------- byte helpers
RECURSIVE XorBits(_, _, _)
XorBits(a, b, n) ==
  IF n = 0 THEN 0
  ELSE (((a % 2) + (b % 2)) % 2) + 2 * XorBits(a \div 2, b \div 2, n - 1)

\* JavaScript's ^ on two bytes.
Xor(a, b) == XorBits(a, b, 8)

\* Buffer.slice(from, to) with 0-based offsets, end exclusive, clamped.
slice(buf, from, to) ==
  LET t == IF to > Len(buf) THEN Len(buf) ELSE to
  IN  IF from >= t THEN <<>> ELSE SubSeq(buf, from + 1, t)

\* Buffer.from(string): a string is a sequence of character codes; ASCII
\* characters encode to themselves, U+FFFD encodes to EF BF BD.  (The
\* string is encoded half by half, which keeps the recursion shallow.)
RECURSIVE BufferFrom(_)
BufferFrom(str) ==
  IF Len(str) = 0 THEN <<>>
  ELSE IF Len(str) = 1
  THEN (IF str[1] < 128 THEN <<str[1]>> ELSE <<239, 191, 189>>)
  ELSE BufferFrom(SubSeq(str, 1, Len(str) \div 2))
       \o BufferFrom(SubSeq(str, (Len(str) \div 2) + 1, Len(str)))

\* Buffer.toString(): ASCII bytes decode to themselves, a byte that is not
\* valid UTF-8 on its own decodes to U+FFFD (65533).
toString(bytes) ==
  [i \in 1..Len(bytes) |-> IF bytes[i] < 128 THEN bytes[i] ELSE 65533]

\* payload[i] ^= mask[i % 4], on a copy.
maskPayload(payload, mask) ==
  [i \in 1..Len(payload) |-> Xor(payload[i], mask[((i - 1) % 4) + 1])]

\* ------------------------------------------------------------ frame codec
\* A frame before serialisation: what the createXFrame constructors pass to
\* generateMetaData.
createTextFrame(data, masked) ==
  [t |-> "frame", fin |-> TRUE, opcode |-> 1, masked |-> masked,
   payload |-> BufferFrom(data)]

createBinaryFrame(data, masked, first, fin) ==
  [t |-> "frame", fin |-> fin, opcode |-> IF first THEN 2 ELSE 0,
   masked |-> masked, payload |-> data]

createCloseFrame(code, reason, masked) ==
  [t |-> "frame", fin |-> TRUE, opcode |-> 8, masked |-> masked,
   payload |->
     IF code # 0 /\ code # 1005
     THEN <<code \div 256, code % 256>>
          \o BufferFrom(IF reason = undefined THEN <<>> ELSE reason)
     ELSE <<>>]

createPingFrame(data, masked) ==
  [t |-> "frame", fin |-> TRUE, opcode |-> 9, masked |-> masked,
   payload |-> BufferFrom(data)]

createPongFrame(data, masked) ==
  [t |-> "frame", fin |-> TRUE, opcode |-> 10, masked |-> masked,
   payload |-> BufferFrom(data)]

\* Big-endian bytes of n, w bytes wide.
RECURSIVE UIntBE(_, _)
UIntBE(n, w) ==
  IF w = 0 THEN <<>> ELSE UIntBE(n \div 256, w - 1) \o <<n % 256>>

\* A faulty generateMetaData that still uses the 7-bit length field for a
\* payload of 126 bytes.
generateMetaDataShortLength(fin, opcode, masked, payload, mask) ==
  LET len == Len(payload)
      b0 == (IF fin THEN 128 ELSE 0) + opcode
      m1 == IF masked THEN 128 ELSE 0
      lenBytes ==
        IF len < 127 THEN <<m1 + len>>
        ELSE IF len < 65536 THEN <<m1 + 126>> \o UIntBE(len, 2)
        ELSE <<m1 + 127>> \o UIntBE(0, 4) \o UIntBE(len, 4)
  IN  <<b0>> \o lenBytes \o (IF masked THEN mask ELSE <<>>)

\* generateMetaData: the header bytes; mask is the 4 random bytes.  A length
\* in the model is below 2^31, so floor(len / 2^32) is 0 and len % 2^32 is len.
generateMetaData(fin, opcode, masked, payload, mask) ==
  LET len == Len(payload)
      b0 == (IF fin THEN 128 ELSE 0) + opcode
      m1 == IF masked THEN 128 ELSE 0
      lenBytes ==
        IF len < 126 THEN <<m1 + len>>
        ELSE IF len < 65536 THEN <<m1 + 126>> \o UIntBE(len, 2)
        ELSE <<m1 + 127>> \o UIntBE(0, 4) \o UIntBE(len, 4)
  IN  <<b0>> \o lenBytes \o (IF masked THEN mask ELSE <<>>)

\* The bytes of a frame on the wire: Buffer.concat([meta, payload]).
FrameBytes(f, mask) ==
  generateMetaData(f.fin, f.opcode, f.masked, f.payload, mask)
  \o (IF f.masked THEN maskPayload(f.payload, mask) ELSE f.payload)


\* -------------------------------------------------------- handshake text
\* The codes of the handshake lines.  71 "GET / HTTP/1.1", 88 "POST / HTTP/1.1",
\* 83 "HTTP/1.1 101 Switching Protocols", 84 "HTTP/1.1 200 OK", the others
\* are header lines.
LineCodes ==
  {71, 88, 83, 84, 72, 75, 85, 68, 67, 69, 86, 87, 65, 66, 80, 81, 82, 79, 78}

\* The lowercased header name of a line that matches /^([a-z-]+): (.+)$/i,
\* "" for a line that does not.
LineName(c) ==
  CASE c = 72 -> "host"
    [] c = 75 -> "sec-websocket-key"
    [] c = 85 -> "upgrade"
    [] c = 68 -> "upgrade"
    [] c = 67 -> "connection"
    [] c = 69 -> "connection"
    [] c = 80 -> "sec-websocket-protocol"
    [] c = 81 -> "sec-websocket-protocol"
    [] c = 82 -> "sec-websocket-protocol"
    [] c = 79 -> "sec-websocket-protocol"
    [] c = 78 -> "sec-websocket-protocol"
    [] c = 86 -> "sec-websocket-version"
    [] c = 87 -> "sec-websocket-version"
    [] c = 65 -> "sec-websocket-accept"
    [] c = 66 -> "sec-websocket-accept"
    [] OTHER -> ""

LineValue(c) ==
  CASE c = 72 -> "h"
    [] c = 75 -> "k"
    [] c = 85 -> "WebSocket"
    [] c = 68 -> "h2c"
    [] c = 67 -> "Upgrade"
    [] c = 69 -> "close"
    [] c = 80 -> "x"
    [] c = 81 -> "y"
    [] c = 82 -> "chat, superchat"
    [] c = 79 -> "superchat,chat"
    [] c = 78 -> "chat"
    [] c = 86 -> "13"
    [] c = 87 -> "8"
    [] c = 65 -> "sha1(k)"
    [] c = 66 -> "sha1(other)"
    [] OTHER -> ""

HeaderNames ==
  {"host", "sec-websocket-key", "upgrade", "connection",
   "sec-websocket-version", "sec-websocket-accept", "sec-websocket-protocol"}

\* String.toLowerCase on the header values that occur.
toLowerCase(v) ==
  CASE v = "WebSocket" -> "websocket"
    [] v = "Upgrade" -> "upgrade"
    [] OTHER -> v

\* value.split(',').map(each => each.trim()) on the sec-websocket-protocol
\* values that occur.
splitProtocols(v) ==
  CASE v = "chat, superchat" -> <<"chat", "superchat">>
    [] v = "superchat,chat" -> <<"superchat", "chat">>
    [] OTHER -> <<v>>

\* base64(sha1(key + "258EAFA5-E914-47DA-95CA-C5AB0DC85B11")).
acceptHash(key) == IF key = "k" THEN "sha1(k)" ELSE "sha1(?)"

\* The index (0-based) of the first CR LF CR LF in buf, -1 if there is none:
\* the loop for (i = 0; i < length - 3; i++).
RECURSIVE findTerminator(_, _)
findTerminator(buf, i) ==
  IF i >= Len(buf) - 3 THEN -1
  ELSE IF /\ buf[i + 1] = CR /\ buf[i + 3] = CR
          /\ buf[i + 2] = LF /\ buf[i + 4] = LF
       THEN i
       ELSE findTerminator(buf, i + 1)

\* String.split('\r\n') of the text: a sequence of lines, each a sequence of
\* line codes.
RECURSIVE splitCRLF(_, _)
splitCRLF(bytes, cur) ==
  IF bytes = <<>> THEN <<cur>>
  ELSE IF Len(bytes) >= 2 /\ bytes[1] = CR /\ bytes[2] = LF
       THEN <<cur>> \o splitCRLF(SubSeq(bytes, 3, Len(bytes)), <<>>)
       ELSE splitCRLF(Tail(bytes), Append(cur, Head(bytes)))

\* A line of the split text as a line code: 0 for a line that is no known
\* line (empty, or garbage).
lineCode(line) ==
  IF Len(line) = 1 /\ line[1] \in LineCodes THEN line[1] ELSE 0

\* readHeaders: every header line from index `from` (0-based) on is stored
\* under its lowercased name, later lines overwriting earlier ones.
RECURSIVE readHeaders(_, _, _)
readHeaders(headers, lines, from) ==
  IF from >= Len(lines) THEN headers
  ELSE LET c == lineCode(lines[from + 1])
           h == IF LineName(c) # ""
                THEN [headers EXCEPT ![LineName(c)] = LineValue(c)]
                ELSE headers
       IN  readHeaders(h, lines, from + 1)

\* The bytes of a handshake made of the lines `codes`, each followed by
\* CR LF, and the empty line that ends it.
RECURSIVE handshakeBytes(_)
handshakeBytes(codes) ==
  IF codes = <<>> THEN <<CR, LF>>
  ELSE <<Head(codes), CR, LF>> \o handshakeBytes(Tail(codes))


\* ------------------------------------------------------ connection state
\* The operations below are functions on the record m of the whole state
\* (see Self); an action installs the record an operation returns.

\* An emitted event.  close: code and data = reason; text, pong: data = the
\* string; binary: code = the InStream's index in streams; error: code = the
\* error (see the Err definitions).
Ev(type, code, data) == [type |-> type, code |-> code, data |-> data]

\* The connection of the model, as an element of Server.connections.
conn == 1

\* ------------------------------------------------ connections of SocketApp
\* The connections a SocketApp accepts in these runs, and the strings
\* randomString(8) returns.
AppConns == {1, 2}

Tokens == {"t", "u", "v"}

\* onConnection: the connection c is made for an accepted socket, its token
\* is t.
onConnection(m, c, t) ==
  [m EXCEPT !.appTokens[c] = t, !.appStates[c] = "accepted"]

\* The once('connect') callback of the connection c: t is the token drawn
\* last in the loop, the first one that is not a key of the map.
onConnect(m, c, t) ==
  [m EXCEPT !.appTokens[c] = t, !.appConnections[t] = c,
            !.appStates[c] = "connected"]

\* The 'close' listener and the 'error' listener of the connection c.
onAppClose(m, c) ==
  [m EXCEPT !.appConnections[m.appTokens[c]] = 0, !.appStates[c] = "closed"]

onAppError(m, c) ==
  [m EXCEPT !.appConnections[m.appTokens[c]] = 0]

\* ------------------------------------------------------- sign dispatcher
\* The texts the dispatcher of SocketApp is given: {"sign":"a"}, {"sign":"z"},
\* null, 5 and hi, as character codes.
signText(c) == <<123, 34, 115, 105, 103, 110, 34, 58, 34, c, 34, 125>>

AppTexts ==
  {signText(97), signText(122), <<110, 117, 108, 108>>, <<53>>, <<104, 105>>}

\* const { sign, data } = JSON.parse(str) on these texts: parsed is false
\* when JSON.parse throws, bound is false when the destructuring throws (the
\* value is null); sign is "" and data is undefined when the value has no
\* such property.
JSONparse(str) ==
  CASE str = signText(97) ->
         [parsed |-> TRUE, bound |-> TRUE, sign |-> "a", data |-> undefined]
    [] str = signText(122) ->
         [parsed |-> TRUE, bound |-> TRUE, sign |-> "z", data |-> undefined]
    [] str = <<110, 117, 108, 108>> ->
         [parsed |-> TRUE, bound |-> FALSE, sign |-> "", data |-> undefined]
    [] str = <<53>> ->
         [parsed |-> TRUE, bound |-> TRUE, sign |-> "", data |-> undefined]
    [] OTHER ->
         [parsed |-> FALSE, bound |-> FALSE, sign |-> "", data |-> undefined]

\* The tags chains are registered for.
Tags == {"a", "unknow", "noJSON"}

\* this.signs.get(tag): the chain, registered or not (undefined).
signsGet(signs, tag) ==
  IF tag \in DOMAIN signs THEN signs[tag]
  ELSE [registered |-> FALSE, cbs |-> <<>>]

\* SocketApp.sign(tag, ...callback): the handlers are appended to the chain
\* of the tag, or become its chain.
sign(signs, tag, callback) ==
  [signs EXCEPT ![tag] = [registered |-> TRUE, cbs |-> @.cbs \o callback]]

\* The closure next of the dispatcher, over its cursor i (st.i), and the
\* handler it invokes: a handler h calls next() h.nexts times and then, if
\* h.throws, throws.  st.log are the invocations (chain, index, handler,
\* first argument); st.thrown: an exception is on its way to the catch.
RECURSIVE next(_, _, _, _)
RECURSIVE handler(_, _, _, _, _, _)
next(st, tag, cbs, arg) ==
  LET i == st.i + 1
      st1 == [st EXCEPT !.i = i]
  IN  IF st.thrown THEN st
      ELSE IF i < Len(cbs)
      THEN handler([st1 EXCEPT !.log = Append(@, [sign |-> tag, i |-> i,
                                                   h |-> cbs[i + 1].id,
                                                   arg |-> arg])],
                   tag, cbs, arg, cbs[i + 1], cbs[i + 1].nexts)
      ELSE st1

handler(st, tag, cbs, arg, h, n) ==
  IF st.thrown THEN st
  ELSE IF n = 0 THEN [st EXCEPT !.thrown = h.throws]
  ELSE handler(next(st, tag, cbs, arg), tag, cbs, arg, h, n - 1)

\* let i = -1; ...; next()
runChain(log, tag, cbs, arg) ==
  next([i |-> -1, log |-> log, thrown |-> FALSE], tag, cbs, arg)

\* The try block of the 'text' listener SocketApp puts on each of its
\* connections: the text is parsed, the chain of its sign (or of "unknow")
\* is looked up and started.  [log, thrown]: the invocations, and whether
\* the block was left by an exception.
dispatchTry(signs, invoked, str) ==
  LET p == JSONparse(str)
      tag == IF signsGet(signs, p.sign).registered THEN p.sign ELSE "unknow"
      cbs == signsGet(signs, tag)
  IN  IF ~(p.parsed /\ p.bound) THEN [log |-> invoked, thrown |-> TRUE]
      ELSE IF ~cbs.registered THEN [log |-> invoked, thrown |-> FALSE]
      ELSE runChain(invoked, tag, cbs.cbs, p.data)

\* The catch block, which also catches what a handler throws: the chain of
\* "noJSON", if there is one, is started with the text.
dispatchCatch(signs, try, str) ==
  IF try.thrown /\ signsGet(signs, "noJSON").registered
  THEN runChain(try.log, "noJSON", signsGet(signs, "noJSON").cbs, str).log
  ELSE try.log

\* The 'text' listener as a whole.
dispatch(m, str) ==
  [m EXCEPT !.invoked = dispatchCatch(m.signs, dispatchTry(m.signs, @, str), str)]

\* A faulty pair of listeners whose 'close' listener leaves the registry as
\* it is.
serverListenersNoSplice(m, type) ==
  IF m.kind = "server" /\ type = "connect"
     /\ \A i \in DOMAIN m.events : m.events[i].type # "connect"
  THEN [m EXCEPT !.connections = Append(@, conn),
                 !.connectionEvents = Append(@, conn)]
  ELSE m

\* The listeners the lib Server puts on each of its connections (m.events
\* are the events emitted before this one): the callback given to the
\* constructor, which is a once('connect') listener, registers the connection
\* and emits 'connection'; the 'close' listener removes it from the registry.
serverListeners(m, type) ==
  IF m.kind = "server" /\ type = "connect"
     /\ \A i \in DOMAIN m.events : m.events[i].type # "connect"
  THEN [m EXCEPT !.connections = Append(@, conn),
                 !.connectionEvents = Append(@, conn)]
  ELSE IF m.kind = "server" /\ type = "close"
          /\ \E i \in DOMAIN m.connections : m.connections[i] = conn
  THEN LET pos == CHOOSE i \in DOMAIN m.connections :
                    /\ m.connections[i] = conn
                    /\ \A j \in 1..(i - 1) : m.connections[j] # conn
       IN  [m EXCEPT !.connections =
                        SubSeq(@, 1, pos - 1) \o SubSeq(@, pos + 1, Len(@))]
  ELSE m

\* this.emit(...): the listeners run at once, and see the connection as it
\* is at that moment (its readyState, the number of writes made so far).
emit(m, type, code, data) ==
  [serverListeners(m, type)
     EXCEPT !.events = Append(@, Ev(type, code, data)),
            !.seen = Append(@, [readyState |-> m.readyState,
                                writes |-> Len(m.written)])]

\* this.emit('text', str): on a connection of a SocketApp the dispatcher is
\* one of the listeners.
emitText(m, str) ==
  IF m.kind = "app" THEN dispatch(emit(m, "text", 0, str), str)
  ELSE emit(m, "text", 0, str)

\* socket.write(frame or HTTP text).
write(m, f) == [m EXCEPT !.written = Append(@, f)]

\* socket.end().
end(m) == [m EXCEPT !.endCalls = @ + 1]

\* An HTTP message written to the socket: the request (status 0) or a
\* response with the given status.
httpMessage(status) ==
  [t |-> "http", fin |-> FALSE, opcode |-> status, masked |-> FALSE,
   payload |-> <<>>]

\* The 101 response, with the header sec-websocket-protocol if a subprotocol
\* was selected (protocol is truthy).
switchingProtocols(p) ==
  IF p = "" THEN httpMessage(101)
  ELSE [t |-> "http", fin |-> FALSE, opcode |-> 101, masked |-> FALSE,
        payload |-> <<>>, protocol |-> p]

\* The selector made by _buildSelectProtocol (and the default _selectProtocol
\* of SocketApp): for (const protocol in protocols) visits the keys "0", "1",
\* ... of the array, in order, and the first one that is an element of
\* validProtocols is returned; "" for undefined.
RECURSIVE forIn(_, _, _)
forIn(valid, protocols, i) ==
  IF i >= Len(protocols) THEN ""
  ELSE IF \E j \in DOMAIN valid : valid[j] = ToString(i) THEN ToString(i)
  ELSE forIn(valid, protocols, i + 1)

selectProtocol(valid, protocols) == forIn(valid, protocols, 0)

\* this.server is set (AppConnection always has a server).
isServer(m) == m.kind # "client"

\* The masked argument of every frame written: !this.server in Connection,
\* false in AppConnection.
sendMasked(m) == m.kind = "client"

\* The values of frameBuffer: undefined, a string or an InStream.
fbUndefined == [tag |-> "undefined", str |-> <<>>, id |-> 0]
fbString(str) == [tag |-> "string", str |-> str, id |-> 0]
fbInStream(id) == [tag |-> "InStream", str |-> <<>>, id |-> id]

\* The value that stands for "no message in progress": Connection leaves the
\* field undefined, AppConnection initialises and resets it to ''.
fbEmpty(kind) == IF kind = "app" THEN fbString(<<>>) ELSE fbUndefined

\* JavaScript truthiness of a frameBuffer value.
truthy(fb) == fb.tag = "InStream" \/ (fb.tag = "string" /\ fb.str # <<>>)

\* InStream.addData and InStream.end on the stream with index id.
addData(m, id, payload) ==
  [m EXCEPT !.streams[id].data = Append(@, payload)]

endInStream(m, id) == [m EXCEPT !.streams[id].ended = TRUE]

\* The errors emitted as 'error' events.
ErrTextDuringBinary == 1
ErrBinaryDuringBinary == 2
ErrNotOpen == 3
ErrHandshake == 4

\* A faulty close that tests for CONNECTING where the code tests for OPEN, so
\* that a CLOSED connection is moved to CLOSING.
closeReopens(m, code, reason) ==
  LET m1 == IF m.readyState # CONNECTING
            THEN [write(m, createCloseFrame(code, reason, sendMasked(m)))
                  EXCEPT !.readyState = CLOSING]
            ELSE [end(m) EXCEPT !.readyState = CLOSED]
  IN  emit(m1, "close", code, reason)

\* Connection.close / AppConnection.close.
close(m, code, reason) ==
  LET m1 == IF m.readyState = OPEN
            THEN [write(m, createCloseFrame(code, reason, sendMasked(m)))
                  EXCEPT !.readyState = CLOSING]
            ELSE IF m.readyState # CLOSED
            THEN [end(m) EXCEPT !.readyState = CLOSED]
            ELSE m
  IN  emit(m1, "close", code, reason)

\* A faulty processCloseFrame that emits 'close' before it replies and
\* changes readyState.
processCloseFrameEmitFirst(m, payload) ==
  LET has == Len(payload) >= 2
      code == IF has THEN payload[1] * 256 + payload[2] ELSE 1005
      reason == IF has THEN toString(slice(payload, 2, Len(payload))) ELSE <<>>
      m1 == emit(m, "close", code, reason)
  IN  [write(m1, createCloseFrame(code, reason, sendMasked(m)))
       EXCEPT !.readyState = CLOSED]

\* processCloseFrame.
processCloseFrame(m, payload) ==
  LET has == Len(payload) >= 2
      code == IF has THEN payload[1] * 256 + payload[2] ELSE 1005
      reason == IF has THEN toString(slice(payload, 2, Len(payload))) ELSE <<>>
      m1 == write(m, createCloseFrame(code, reason, sendMasked(m)))
  IN  emit([m1 EXCEPT !.readyState = CLOSED], "close", code, reason)

\* The two sequencing tests of processFrame.  Connection compares frameBuffer
\* with null (a value the field never holds); AppConnection tests its truth.
unexpectedContinuation(m, opcode) ==
  opcode = 0 /\ (IF m.kind = "app" THEN ~truthy(m.frameBuffer)
                 ELSE m.frameBuffer.tag = "null")

unfinishedSequence(m, opcode) ==
  opcode # 0 /\ (IF m.kind = "app" THEN truthy(m.frameBuffer)
                 ELSE m.frameBuffer.tag # "null")

\* A faulty processFrame that answers a close frame in CLOSING as it does in
\* OPEN.
processFrameReplyTwice(m, fin, opcode, payload) ==
  IF opcode = 8 /\ m.readyState \in {OPEN, CLOSING}
  THEN [ok |-> TRUE, m |-> processCloseFrame(m, payload)]
  ELSE [ok |-> TRUE, m |-> m]

\* processFrame: [ok, m].
processFrame(m, fin, opcode, payload) ==
  IF opcode = 8 THEN
    [ok |-> TRUE,
     m |-> IF m.readyState = CLOSING THEN end(m)
           ELSE IF m.readyState = OPEN THEN processCloseFrame(m, payload)
           ELSE m]
  ELSE IF opcode = 9 THEN
    [ok |-> TRUE,
     m |-> IF m.readyState = OPEN
           THEN write(m, createPongFrame(toString(payload), sendMasked(m)))
           ELSE m]
  ELSE IF opcode = 10 THEN
    [ok |-> TRUE, m |-> emit(m, "pong", 0, toString(payload))]
  ELSE IF m.readyState # OPEN THEN [ok |-> TRUE, m |-> m]
  ELSE IF unexpectedContinuation(m, opcode) THEN [ok |-> FALSE, m |-> m]
  ELSE IF unfinishedSequence(m, opcode) THEN [ok |-> FALSE, m |-> m]
  ELSE IF m.frameBuffer.tag = "string" THEN
    LET str == m.frameBuffer.str \o toString(payload)
    IN  [ok |-> TRUE,
         m |-> IF fin
               THEN [emitText(m, str)
                     EXCEPT !.frameBuffer = fbEmpty(m.kind)]
               ELSE [m EXCEPT !.frameBuffer = fbString(str)]]
  ELSE
    LET fresh == ~truthy(m.frameBuffer)
        id == IF fresh THEN Len(m.streams) + 1 ELSE m.frameBuffer.id
        m1 == IF fresh
              THEN emit([m EXCEPT
                           !.streams = Append(@, [data |-> <<>>, ended |-> FALSE]),
                           !.frameBuffer = fbInStream(id)],
                        "binary", id, <<>>)
              ELSE m
        m2 == addData(m1, id, payload)
    IN  [ok |-> TRUE,
         m |-> IF fin
               THEN [endInStream(m2, id) EXCEPT !.frameBuffer = fbEmpty(m.kind)]
               ELSE m2]

\* readUInt32BE(2) * 2^32 + readUInt32BE(6) of the 8 length bytes b.  Every
\* value from 2^30 on is written 2^30: it is only compared with the length of
\* a buffer, which is far smaller.
readUInt64(b) ==
  IF b[1] = 0 /\ b[2] = 0 /\ b[3] = 0 /\ b[4] = 0 /\ b[5] < 64
  THEN b[5] * 16777216 + b[6] * 65536 + b[7] * 256 + b[8]
  ELSE 1073741824

\* A faulty extractFrame that accepts a control frame without fin.
extractFrameFragmentedControl(m) ==
  LET buf == m.buffer
      n == Len(buf)
      hasMask == (buf[2] \div 128) = 1
      len == buf[2] % 128
      start == IF hasMask THEN 6 ELSE 2
      raw == slice(buf, start, start + len)
      payload == IF hasMask THEN maskPayload(raw, slice(buf, start - 4, start))
                 ELSE raw
      r == processFrame([m EXCEPT !.buffer = slice(buf, start + len, n)],
                        (buf[1] \div 16) = 8, buf[1] % 16, payload)
  IN  IF n < 2 THEN [res |-> "undefined", m |-> m]
      ELSE IF (buf[1] \div 16) % 8 # 0 \/ (buf[1] % 16) \notin {0, 1, 2, 8, 9, 10}
              \/ (isServer(m) /\ ~hasMask) \/ (m.kind = "client" /\ hasMask)
              \/ len > 125
           THEN [res |-> "false", m |-> m]
      ELSE IF n < start + len THEN [res |-> "undefined", m |-> m]
      ELSE [res |-> IF r.ok THEN "true" ELSE "false", m |-> r.m]

\* A faulty extractFrame that does not look at the mask bit.
extractFrameAnyMask(m) ==
  LET buf == m.buffer
      n == Len(buf)
      hasMask == (buf[2] \div 128) = 1
      len == buf[2] % 128
      start == IF hasMask THEN 6 ELSE 2
      raw == slice(buf, start, start + len)
      payload == IF hasMask THEN maskPayload(raw, slice(buf, start - 4, start))
                 ELSE raw
      r == processFrame([m EXCEPT !.buffer = slice(buf, start + len, n)],
                        (buf[1] \div 16) = 8, buf[1] % 16, payload)
  IN  IF n < 2 THEN [res |-> "undefined", m |-> m]
      ELSE IF (buf[1] \div 16) % 8 # 0 \/ (buf[1] % 16) \notin {0, 1, 2, 8, 9, 10}
              \/ ((buf[1] % 16) >= 8 /\ (buf[1] \div 16) # 8) \/ len > 125
           THEN [res |-> "false", m |-> m]
      ELSE IF n < start + len THEN [res |-> "undefined", m |-> m]
      ELSE [res |-> IF r.ok THEN "true" ELSE "false", m |-> r.m]

\* extractFrame: [res, m] with res "true" (a frame was taken and processed),
\* "false" (protocol error) or "undefined" (more data is needed).
extractFrame(m) ==
  LET buf == m.buffer
      n == Len(buf)
      B0 == buf[1]
      HB == B0 \div 16
      fin == HB = 8
      opcode == B0 % 16
      B1 == buf[2]
      hasMask == (B1 \div 128) = 1
      len7 == B1 % 128
      start0 == IF hasMask THEN 6 ELSE 2
      len == IF len7 = 126 THEN buf[3] * 256 + buf[4]
             ELSE IF len7 = 127 THEN readUInt64(slice(buf, 2, 10))
             ELSE len7
      start == IF len7 = 126 THEN start0 + 2
               ELSE IF len7 = 127 THEN start0 + 8 ELSE start0
      raw == slice(buf, start, start + len)
      payload == IF hasMask THEN maskPayload(raw, slice(buf, start - 4, start))
                 ELSE raw
      r == processFrame([m EXCEPT !.buffer = slice(buf, start + len, n)],
                        fin, opcode, payload)
  IN  IF n < 2 THEN [res |-> "undefined", m |-> m]
      ELSE IF HB % 8 # 0 THEN [res |-> "false", m |-> m]
      ELSE IF opcode \notin {0, 1, 2, 8, 9, 10} THEN [res |-> "false", m |-> m]
      ELSE IF opcode >= 8 /\ ~fin THEN [res |-> "false", m |-> m]
      ELSE IF (isServer(m) /\ ~hasMask) \/ (m.kind = "client" /\ hasMask)
           THEN [res |-> "false", m |-> m]
      ELSE IF n < start0 + len7 THEN [res |-> "undefined", m |-> m]
      ELSE IF n < start + len THEN [res |-> "undefined", m |-> m]
      ELSE [res |-> IF r.ok THEN "true" ELSE "false", m |-> r.m]

\* while ((temp = this.extractFrame()) === true) {}
RECURSIVE extractLoop(_)
extractLoop(m) ==
  LET r == extractFrame(m)
  IN  IF r.res = "true" THEN extractLoop(r.m) ELSE r


\* ------------------------------------------------------------- handshake
\* upgrade is 'websocket' and the connection list holds 'upgrade' (the
\* header values that occur hold a single token).
upgradeHeadersValid(headers) ==
  /\ toLowerCase(headers["upgrade"]) = "websocket"
  /\ toLowerCase(headers["connection"]) = "upgrade"

\* A faulty answerHandshake that accepts any sec-websocket-version.
answerHandshakeAnyVersion(m, lines) ==
  LET hs == readHeaders(m.headers, lines, IF m.kind = "app" THEN 0 ELSE 1)
      m1 == [m EXCEPT !.headers = hs]
  IN  IF Len(lines) < 6 THEN [ok |-> FALSE, m |-> m]
      ELSE IF lineCode(lines[1]) # 71 THEN [ok |-> FALSE, m |-> m]
      ELSE IF \E h \in {"host", "sec-websocket-key", "upgrade", "connection"} :
                hs[h] = ""
           THEN [ok |-> FALSE, m |-> m1]
      ELSE IF ~upgradeHeadersValid(hs) THEN [ok |-> FALSE, m |-> m1]
      ELSE [ok |-> TRUE,
            m |-> write([m1 EXCEPT !.key = hs["sec-websocket-key"]],
                        httpMessage(101))]

\* answerHandshake (server side): [ok, m].  Connection reads the headers
\* from line 1 on, AppConnection from line 0 on.
answerHandshake(m, lines) ==
  LET hs == readHeaders(m.headers, lines, IF m.kind = "app" THEN 0 ELSE 1)
      m1 == [m EXCEPT !.headers = hs]
      offered == splitProtocols(hs["sec-websocket-protocol"])
      m2 == IF hs["sec-websocket-protocol"] # ""
            THEN [m1 EXCEPT !.key = hs["sec-websocket-key"],
                            !.protocols = offered,
                            !.protocol = selectProtocol(m.validProtocols, offered)]
            ELSE [m1 EXCEPT !.key = hs["sec-websocket-key"]]
  IN  IF Len(lines) < 6 THEN [ok |-> FALSE, m |-> m]
      ELSE IF lineCode(lines[1]) # 71 THEN [ok |-> FALSE, m |-> m]
      ELSE IF \E h \in {"host", "sec-websocket-key", "upgrade", "connection"} :
                hs[h] = ""
           THEN [ok |-> FALSE, m |-> m1]
      ELSE IF ~upgradeHeadersValid(hs) THEN [ok |-> FALSE, m |-> m1]
      ELSE IF hs["sec-websocket-version"] # "13" THEN [ok |-> FALSE, m |-> m1]
      ELSE [ok |-> TRUE,
            m |-> write(m2, switchingProtocols(m2.protocol))]

\* A faulty checkHandshake that does not compare sec-websocket-accept with
\* the hash of its key.
checkHandshakeAnyAccept(m, lines) ==
  LET hs == readHeaders(m.headers, lines, 1)
      m1 == [m EXCEPT !.headers = hs]
      protocol == hs["sec-websocket-protocol"]
      fail(x) == [ok |-> FALSE, m |-> emit(x, "error", ErrHandshake, <<>>)]
  IN  IF Len(lines) < 4 THEN fail(m)
      ELSE IF lineCode(lines[1]) # 83 THEN fail(m)
      ELSE IF \E h \in {"upgrade", "sec-websocket-accept", "connection"} :
                hs[h] = ""
           THEN fail(m1)
      ELSE IF ~upgradeHeadersValid(hs) THEN fail(m1)
      ELSE IF IF m.protocols # <<>>
              THEN protocol = ""
                   \/ \A i \in DOMAIN m.protocols : m.protocols[i] # protocol
              ELSE protocol # ""
           THEN fail(m1)
      ELSE [ok |-> TRUE, m |-> m1]

\* checkHandshake (client side): [ok, m].
checkHandshake(m, lines) ==
  LET hs == readHeaders(m.headers, lines, 1)
      m1 == [m EXCEPT !.headers = hs]
      protocol == hs["sec-websocket-protocol"]
      fail(x) == [ok |-> FALSE, m |-> emit(x, "error", ErrHandshake, <<>>)]
  IN  IF Len(lines) < 4 THEN fail(m)
      ELSE IF lineCode(lines[1]) # 83 THEN fail(m)
      ELSE IF \E h \in {"upgrade", "sec-websocket-accept", "connection"} :
                hs[h] = ""
           THEN fail(m1)
      ELSE IF ~upgradeHeadersValid(hs) THEN fail(m1)
      ELSE IF IF m.protocols # <<>>
              THEN protocol = ""
                   \/ \A i \in DOMAIN m.protocols : m.protocols[i] # protocol
              ELSE protocol # ""
           THEN fail(m1)
      ELSE IF hs["sec-websocket-accept"] # acceptHash(m.key) THEN fail(m1)
      ELSE [ok |-> TRUE, m |-> m1]

\* startHandshake (client side): the key is 16 random bytes, written "k".
startHandshake(m) == write([m EXCEPT !.key = "k"], httpMessage(0))

\* A faulty readHandshake that opens the connection without emitting
\* 'connect'.
readHandshakeSilent(m) ==
  LET i == findTerminator(m.buffer, 0)
      lines == splitCRLF(slice(m.buffer, 0, i + 4), <<>>)
      r == IF isServer(m) THEN answerHandshake(m, lines)
           ELSE checkHandshake(m, lines)
  IN  IF Len(m.buffer) > maxBufferLength \/ i = -1 \/ ~r.ok
      THEN [ok |-> FALSE, m |-> m]
      ELSE [ok |-> TRUE,
            m |-> [r.m EXCEPT !.buffer = slice(m.buffer, i + 4, Len(m.buffer)),
                              !.readyState = OPEN]]

\* readHandshake: [ok, m].
readHandshake(m) ==
  LET i == findTerminator(m.buffer, 0)
      lines == splitCRLF(slice(m.buffer, 0, i + 4), <<>>)
      r == IF isServer(m) THEN answerHandshake(m, lines)
           ELSE checkHandshake(m, lines)
  IN  IF Len(m.buffer) > maxBufferLength
      THEN [ok |-> FALSE,
            m |-> IF isServer(m) THEN end(write(m, httpMessage(400)))
                  ELSE emit(end(m), "error", ErrHandshake, <<>>)]
      ELSE IF i = -1 THEN [ok |-> FALSE, m |-> m]
      ELSE IF r.ok
      THEN [ok |-> TRUE,
            m |-> emit([r.m EXCEPT !.buffer = slice(m.buffer, i + 4, Len(m.buffer)),
                                   !.readyState = OPEN],
                       "connect", 0, <<>>)]
      ELSE [ok |-> FALSE,
            m |-> IF isServer(m) THEN end(write(r.m, httpMessage(400)))
                  ELSE end(r.m)]

\* A faulty tail of doRead that never checks the buffer length.
readFramesUnbounded(m) ==
  LET r == extractLoop(m)
  IN  IF r.res = "false" THEN close(r.m, 1002, undefined) ELSE r.m

\* ------------------------------------------------------------ doRead
\* The tail of doRead: the extraction loop and the two error closes.
readFrames(m) ==
  LET r == extractLoop(m)
  IN  IF r.res = "false" THEN close(r.m, 1002, undefined)
      ELSE IF Len(r.m.buffer) > maxBufferLength THEN close(r.m, 1009, undefined)
      ELSE r.m

\* doRead with socket.read() returning chunk.
doRead(m, chunk) ==
  LET m1 == [m EXCEPT !.buffer = @ \o chunk]
      hs == readHandshake(m1)
  IN  IF m1.readyState = CONNECTING
      THEN IF ~hs.ok THEN hs.m
           ELSE IF hs.m.readyState # CLOSED THEN readFrames(hs.m) ELSE hs.m
      ELSE IF m1.readyState # CLOSED THEN readFrames(m1)
      ELSE m1

\* ------------------------------------------------------------ OutStream
\* Writable.end() on the OutStream with index id: 'finish' follows later.
endOutStream(m, id) == [m EXCEPT !.outs[id].ended = TRUE]

\* A faulty onclose that emits close(1006) whenever the connection is not
\* CLOSED yet.
oncloseUnlessClosed(m) ==
  LET m1 == IF m.readyState # CLOSED
            THEN emit(m, "close", 1006, <<>>) ELSE m
      m2 == [m1 EXCEPT !.readyState = CLOSED]
      m3 == IF m2.frameBuffer.tag = "InStream"
            THEN [endInStream(m2, m2.frameBuffer.id)
                  EXCEPT !.frameBuffer = fbEmpty(m.kind)]
            ELSE m2
  IN  IF m3.outStream # 0
      THEN [endOutStream(m3, m3.outStream) EXCEPT !.outStream = 0]
      ELSE m3

\* The close listener of the socket ('close' and 'finish').
onclose(m) ==
  LET m1 == IF m.readyState \in {CONNECTING, OPEN}
            THEN emit(m, "close", 1006, <<>>) ELSE m
      m2 == [m1 EXCEPT !.readyState = CLOSED]
      m3 == IF m2.frameBuffer.tag = "InStream"
            THEN [endInStream(m2, m2.frameBuffer.id)
                  EXCEPT !.frameBuffer = fbEmpty(m.kind)]
            ELSE m2
  IN  IF m3.outStream # 0
      THEN [endOutStream(m3, m3.outStream) EXCEPT !.outStream = 0]
      ELSE m3

\* A faulty sendText that does not look at the outStream slot.
sendTextUnchecked(m, str) ==
  IF m.readyState = OPEN THEN write(m, createTextFrame(str, sendMasked(m)))
  ELSE emit(m, "error", ErrNotOpen, <<>>)

\* ------------------------------------------------------------ send calls
\* A faulty sendText that also writes while the connection is CLOSING.
sendTextWhileClosing(m, str) ==
  IF m.readyState \in {OPEN, CLOSING}
  THEN IF m.outStream = 0 THEN write(m, createTextFrame(str, sendMasked(m)))
       ELSE emit(m, "error", ErrTextDuringBinary, <<>>)
  ELSE emit(m, "error", ErrNotOpen, <<>>)

sendText(m, str) ==
  IF m.readyState = OPEN
  THEN IF m.outStream = 0 THEN write(m, createTextFrame(str, sendMasked(m)))
       ELSE emit(m, "error", ErrTextDuringBinary, <<>>)
  ELSE emit(m, "error", ErrNotOpen, <<>>)

\* A faulty sendBinary that ends the socket of a connection that is not OPEN.
sendBinaryEnds(m, data) ==
  IF m.readyState = OPEN
  THEN IF m.outStream = 0
       THEN write(m, createBinaryFrame(data, sendMasked(m), TRUE, TRUE))
       ELSE emit(m, "error", ErrBinaryDuringBinary, <<>>)
  ELSE emit([end(m) EXCEPT !.readyState = CLOSED], "error", ErrNotOpen, <<>>)

sendBinary(m, data) ==
  IF m.readyState = OPEN
  THEN IF m.outStream = 0
       THEN write(m, createBinaryFrame(data, sendMasked(m), TRUE, TRUE))
       ELSE emit(m, "error", ErrBinaryDuringBinary, <<>>)
  ELSE emit(m, "error", ErrNotOpen, <<>>)

\* beginBinary (Connection only): a new OutStream takes the outStream slot.
\* The record of an OutStream also keeps the chunks written to it and the
\* frames it wrote to the socket.
beginBinary(m) ==
  IF m.readyState = OPEN
  THEN IF m.outStream = 0
       THEN [m EXCEPT !.outs = Append(@, [buffer |-> <<>>, hasSent |-> FALSE,
                                          ended |-> FALSE, finished |-> FALSE,
                                          chunks |-> <<>>, frames |-> <<>>]),
                      !.outStream = Len(m.outs) + 1]
       ELSE emit(m, "error", ErrBinaryDuringBinary, <<>>)
  ELSE emit(m, "error", ErrNotOpen, <<>>)

\* A faulty sendPing that leaves the masked argument of createPingFrame to
\* its default.
sendPingUnmasked(m, data) ==
  IF m.readyState = OPEN THEN write(m, createPingFrame(data, FALSE))
  ELSE emit(m, "error", ErrNotOpen, <<>>)

\* sendPing (Connection only).
sendPing(m, data) ==
  IF m.readyState = OPEN THEN write(m, createPingFrame(data, sendMasked(m)))
  ELSE emit(m, "error", ErrNotOpen, <<>>)

\* this.connection.socket.write(frame) by the OutStream with index id.
outSocketWrite(m, id, f) == [write(m, f) EXCEPT !.outs[id].frames = Append(@, f)]

\* A faulty _write that does not set hasSent.
outWriteNeverSent(m, id, chunk) ==
  LET buf == m.outs[id].buffer \o chunk
      m0 == [m EXCEPT !.outs[id].chunks = Append(@, chunk)]
  IN  IF Len(buf) >= binaryFragmentation
      THEN LET m1 == IF m.readyState = OPEN
                     THEN outSocketWrite(m0, id,
                            createBinaryFrame(buf, sendMasked(m),
                                              ~m.outs[id].hasSent, FALSE))
                     ELSE m0
           IN  [m1 EXCEPT !.outs[id].buffer = <<>>]
      ELSE [m0 EXCEPT !.outs[id].buffer = buf]

\* OutStream._write(chunk) on the OutStream with index id.
outWrite(m, id, chunk) ==
  LET buf == m.outs[id].buffer \o chunk
      m0 == [m EXCEPT !.outs[id].chunks = Append(@, chunk)]
  IN  IF Len(buf) >= binaryFragmentation
      THEN LET m1 == IF m.readyState = OPEN
                     THEN outSocketWrite(m0, id,
                            createBinaryFrame(buf, sendMasked(m),
                                              ~m.outs[id].hasSent, FALSE))
                     ELSE m0
           IN  [m1 EXCEPT !.outs[id].buffer = <<>>, !.outs[id].hasSent = TRUE]
      ELSE [m0 EXCEPT !.outs[id].buffer = buf]

\* A faulty 'finish' listener that leaves the outStream slot alone when the
\* connection is not OPEN.
outFinishKeepsSlot(m, id) ==
  IF m.readyState = OPEN
  THEN [outSocketWrite(m, id,
          createBinaryFrame(m.outs[id].buffer, sendMasked(m),
                            ~m.outs[id].hasSent, TRUE))
        EXCEPT !.outStream = 0, !.outs[id].finished = TRUE]
  ELSE [m EXCEPT !.outs[id].finished = TRUE]

\* The 'finish' listener of the OutStream with index id.
outFinish(m, id) ==
  LET m1 == IF m.readyState = OPEN
            THEN outSocketWrite(m, id,
                   createBinaryFrame(m.outs[id].buffer, sendMasked(m),
                                     ~m.outs[id].hasSent, TRUE))
            ELSE m
  IN  [m1 EXCEPT !.outStream = 0, !.outs[id].finished = TRUE]


\* ------------------------------------------------------------ the state
VARIABLES
  kind,         \* "server" / "client": Connection in that role; "app": AppConnection
  readyState,
  buffer,       \* the receive buffer
  frameBuffer,  \* the message being assembled
  outStream,    \* index in outs of the current OutStream, 0 for none
  headers,      \* header name -> value, "" for an absent header
  protocols,    \* client: the subprotocols it offers (options.protocols);
                \* server: the subprotocols the request offered
  protocol,     \* server: the subprotocol selected, "" for undefined
  validProtocols, \* the option validProtocols of this.server; <<>> also
                \* stands for a server without a selector
  connections,  \* Server.connections of this.server (lib Server)
  connectionEvents, \* the connections this.server emitted 'connection' for
  signs,        \* SocketApp.signs of this.server: tag -> chain of handlers
  invoked,      \* the handlers the dispatcher of SocketApp invoked, in order
  appConnections, \* SocketApp.connections: token -> connection, 0 for none
  appTokens,    \* SocketApp: the variable token of each accepted connection
  appStates,    \* SocketApp: how far each of its connections has come
  key,          \* Sec-WebSocket-Key
  written,      \* what was written to the socket, in order
  endCalls,     \* number of socket.end() calls
  events,       \* the events emitted by the connection, in order
  seen,         \* what the listeners of each event saw of the connection
  streams,      \* the InStream objects created
  outs,         \* the OutStream objects created
  wire,         \* what the peer has sent and the socket has not yet read:
                \* a sequence of items, each a sequence of bytes
  headCut,      \* the first item in wire is the rest of a partly read item
  items,        \* number of items the peer has sent
  calls,        \* number of API calls made
  owrites,      \* number of OutStream writes made
  started,      \* client: the socket's 'connect' event has fired
  closeFired,   \* the socket's 'close' event has fired
  finishFired   \* the socket's 'finish' event has fired

connVars ==
  <<kind, readyState, buffer, frameBuffer, outStream, headers, protocols,
    protocol, validProtocols, connections, connectionEvents, signs, invoked,
    appConnections, appTokens, appStates, key, written, endCalls, events, seen, streams, outs>>

envVars == <<wire, headCut, items, calls, owrites, started, closeFired, finishFired>>

vars == <<connVars, envVars>>

Self ==
  [kind |-> kind, readyState |-> readyState, buffer |-> buffer,
   frameBuffer |-> frameBuffer, outStream |-> outStream, headers |-> headers,
   protocols |-> protocols, protocol |-> protocol,
   validProtocols |-> validProtocols, connections |-> connections,
   connectionEvents |-> connectionEvents, signs |-> signs,
   invoked |-> invoked, appConnections |-> appConnections,
   appTokens |-> appTokens, appStates |-> appStates,
   key |-> key, written |-> written, endCalls |-> endCalls, events |-> events,
   seen |-> seen, streams |-> streams, outs |-> outs]

Install(m) ==
  /\ kind' = m.kind
  /\ readyState' = m.readyState
  /\ buffer' = m.buffer
  /\ frameBuffer' = m.frameBuffer
  /\ outStream' = m.outStream
  /\ headers' = m.headers
  /\ protocols' = m.protocols
  /\ protocol' = m.protocol
  /\ validProtocols' = m.validProtocols
  /\ connections' = m.connections
  /\ connectionEvents' = m.connectionEvents
  /\ signs' = m.signs
  /\ invoked' = m.invoked
  /\ appConnections' = m.appConnections
  /\ appTokens' = m.appTokens
  /\ appStates' = m.appStates
  /\ key' = m.key
  /\ written' = m.written
  /\ endCalls' = m.endCalls
  /\ events' = m.events
  /\ seen' = m.seen
  /\ streams' = m.streams
  /\ outs' = m.outs

\* The state after the constructor, but for the subprotocols offered.
Constructed ==
  /\ kind \in Kinds
  /\ readyState = CONNECTING
  /\ buffer = <<>>
  /\ frameBuffer = fbEmpty(kind)
  /\ outStream = 0
  /\ headers = [h \in HeaderNames |-> ""]
  /\ key = ""
  /\ protocol = ""
  /\ connections = <<>>
  /\ connectionEvents = <<>>
  /\ signs = [tag \in Tags |-> [registered |-> FALSE, cbs |-> <<>>]]
  /\ invoked = <<>>
  /\ appConnections = [t \in Tokens |-> 0]
  /\ appTokens = [c \in AppConns |-> ""]
  /\ appStates = [c \in AppConns |-> "none"]
  /\ written = <<>>
  /\ endCalls = 0
  /\ events = <<>>
  /\ seen = <<>>
  /\ streams = <<>>
  /\ outs = <<>>
  /\ wire = <<>>
  /\ headCut = FALSE
  /\ items = 0
  /\ calls = 0
  /\ owrites = 0
  /\ started = FALSE
  /\ closeFired = FALSE
  /\ finishFired = FALSE

\* The state after the constructor, no subprotocols given in the options.
Init == Constructed /\ protocols = <<>> /\ validProtocols = <<>>

\* The state after the constructor, a client offering no subprotocol or the
\* subprotocol x.
InitOffering ==
  /\ Constructed
  /\ protocols \in (IF kind = "client" THEN {<<>>, <<"x">>} ELSE {<<>>})
  /\ validProtocols = <<>>

\* ------------------------------------------------------------ the peer
\* The mask key the peer uses for its masked frames.
PeerMask == <<1, 2, 3, 4>>

\* A frame whose header announces 300 payload bytes, cut after enough bytes
\* to overflow the receive buffer.
oversizeFrame(masked) ==
  LET head == <<130, (IF masked THEN 128 ELSE 0) + 126, 1, 44>>
              \o (IF masked THEN PeerMask ELSE <<>>)
  IN  head \o [i \in 1..(maxBufferLength + 1 - Len(head)) |-> 0]

\* The frames the peer sends in the runs that exercise the life cycle of the
\* connection (a client peer masks its frames, a server peer does not): a
\* text, a continuation, a close, a pong, a frame with RSV1 set and an
\* oversize frame.
PeerFrames(masked) ==
  { FrameBytes(createTextFrame(<<97>>, masked), PeerMask),
    FrameBytes(createBinaryFrame(<<98>>, masked, FALSE, TRUE), PeerMask),
    FrameBytes(createCloseFrame(1000, <<>>, masked), PeerMask),
    FrameBytes(createPongFrame(<<113>>, masked), PeerMask),
    <<193, IF masked THEN 128 ELSE 0>> \o (IF masked THEN PeerMask ELSE <<>>),
    oversizeFrame(masked) }

\* The data frames the peer sends in the runs that exercise the assembly of
\* messages: whole and fragmented text and binary messages, with fragments
\* of length 0 and 1.
PeerDataFrames(masked) ==
  { FrameBytes(createTextFrame(<<97>>, masked), PeerMask),
    FrameBytes([createTextFrame(<<>>, masked) EXCEPT !.fin = FALSE], PeerMask),
    FrameBytes([createTextFrame(<<97>>, masked) EXCEPT !.fin = FALSE], PeerMask),
    FrameBytes(createBinaryFrame(<<98>>, masked, FALSE, TRUE), PeerMask),
    FrameBytes(createBinaryFrame(<<99>>, masked, FALSE, FALSE), PeerMask),
    FrameBytes(createBinaryFrame(<<1>>, masked, TRUE, TRUE), PeerMask),
    FrameBytes(createBinaryFrame(<<1, 2>>, masked, TRUE, FALSE), PeerMask) }

\* The control frames the peer sends in the runs that exercise the send side.
PeerControlFrames(masked) ==
  { FrameBytes(createCloseFrame(1000, <<>>, masked), PeerMask),
    FrameBytes(createPingFrame(<<112>>, masked), PeerMask) }

\* The handshakes a peer sends: a valid one and one that must be refused.
PeerHandshakes(k) ==
  IF k = "client"
  THEN { handshakeBytes(<<83, 85, 67, 65>>), handshakeBytes(<<83, 85, 67, 66>>) }
  ELSE { handshakeBytes(<<71, 72, 75, 85, 67, 86>>),
         handshakeBytes(<<71, 72, 75, 85, 67, 87>>) }

\* The valid handshake.
goodHandshake(k) ==
  IF k = "client" THEN handshakeBytes(<<83, 85, 67, 65>>)
  ELSE handshakeBytes(<<71, 72, 75, 85, 67, 86>>)

PeerItems(k) ==
  PeerHandshakes(k) \cup PeerFrames(k # "client")
  \cup PeerDataFrames(k # "client") \cup PeerControlFrames(k # "client")

\* The concatenation of a sequence of byte sequences.
RECURSIVE Flatten(_)
Flatten(ss) == IF ss = <<>> THEN <<>> ELSE Head(ss) \o Flatten(Tail(ss))

\* ------------------------------------------------------------ actions
\* Client: the socket connects and the handshake request is written.
SocketConnect ==
  /\ kind = "client" /\ ~started /\ ~closeFired
  /\ Install(startHandshake(Self))
  /\ started' = TRUE
  /\ UNCHANGED <<wire, headCut, items, calls, owrites, closeFired, finishFired>>

\* The peer sends one more item: first a handshake (or bytes that are none),
\* then frames.  At most two items are in flight at a time.
PeerSend(item) ==
  /\ items < MaxItems /\ ~closeFired
  /\ kind = "client" => started
  /\ Len(wire) <= 1
  /\ IF items = 0
     THEN item \in PeerHandshakes(kind) \cup {oversizeFrame(kind # "client")}
     ELSE item \in PeerFrames(kind # "client")
  /\ wire' = Append(wire, item)
  /\ items' = items + 1
  /\ UNCHANGED <<connVars, headCut, calls, owrites, started, closeFired,
                 finishFired>>

\* The sizes at which a read may cut the item after the k whole ones it
\* takes: not at all, after its first byte, or before its last byte.
CutSizes(k) ==
  IF k = Len(wire) \/ Len(wire[k + 1]) < 2 THEN {0}
  ELSE {0, 1, Len(wire[k + 1]) - 1}

\* The socket is readable: doRead with socket.read() returning the first k
\* items in flight and the first c bytes of the next one.  An item arrives in
\* at most two chunks; a chunk may span items.
Readable(k, c) ==
  /\ ~closeFired
  /\ k + c > 0
  /\ headCut => k >= 1
  /\ Install(doRead(Self, Flatten(SubSeq(wire, 1, k))
                          \o (IF c = 0 THEN <<>> ELSE SubSeq(wire[k + 1], 1, c))))
  /\ wire' = IF c = 0 THEN SubSeq(wire, k + 1, Len(wire))
             ELSE <<SubSeq(wire[k + 1], c + 1, Len(wire[k + 1]))>>
                  \o SubSeq(wire, k + 2, Len(wire))
  /\ headCut' = (c > 0)
  /\ UNCHANGED <<items, calls, owrites, started, closeFired, finishFired>>

\* A call of the connection API by the application.
Call(m) ==
  /\ calls < MaxCalls
  /\ Install(m)
  /\ calls' = calls + 1
  /\ UNCHANGED <<wire, headCut, items, owrites, started, closeFired, finishFired>>

Close == Call(close(Self, 1000, <<98, 121, 101>>))

\* close() in the runs of the life cycle, which bound it on its own.
LocalClose == calls < MaxCloses /\ Close

SendText == Call(sendText(Self, <<104, 105>>))

SendBinary == Call(sendBinary(Self, <<1, 2, 3>>))

BeginBinary == kind # "app" /\ Call(beginBinary(Self))

SendPing == kind # "app" /\ Call(sendPing(Self, <<>>))

\* The application writes a chunk to an OutStream it holds.
OutWrite(id, chunk) ==
  /\ owrites < MaxWrites /\ ~outs[id].ended
  /\ Install(outWrite(Self, id, chunk))
  /\ owrites' = owrites + 1
  /\ UNCHANGED <<wire, headCut, items, calls, started, closeFired, finishFired>>

\* The application ends an OutStream it holds.
OutEnd(id) ==
  /\ ~outs[id].ended
  /\ Install(endOutStream(Self, id))
  /\ UNCHANGED envVars

\* An ended OutStream emits 'finish'.
OutFinish(id) ==
  /\ outs[id].ended /\ ~outs[id].finished
  /\ Install(outFinish(Self, id))
  /\ UNCHANGED envVars

\* The socket emits 'finish': its writable side, ended by socket.end(), has
\* been flushed.  (The end of the transport by the peer is TransportClose.)
TransportFinish ==
  /\ ~finishFired /\ ~closeFired /\ endCalls > 0
  /\ Install(onclose(Self))
  /\ finishFired' = TRUE
  /\ UNCHANGED <<wire, headCut, items, calls, owrites, started, closeFired>>

\* The socket emits 'close'.
TransportClose ==
  /\ ~closeFired
  /\ Install(onclose(Self))
  /\ closeFired' = TRUE
  /\ UNCHANGED <<wire, headCut, items, calls, owrites, started, finishFired>>

\* The peer sends a data frame after its valid handshake.
PeerSendData(item) ==
  /\ items < MaxItems /\ ~closeFired
  /\ kind = "client" => started
  /\ Len(wire) <= 1
  /\ IF items = 0 THEN item = goodHandshake(kind)
     ELSE item \in PeerDataFrames(kind # "client")
  /\ wire' = Append(wire, item)
  /\ items' = items + 1
  /\ UNCHANGED <<connVars, headCut, calls, owrites, started, closeFired,
                 finishFired>>

\* The life cycle: handshakes and frames in chunks, local close() calls and
\* the end of the transport.
Next ==
  \/ SocketConnect
  \/ \E item \in PeerItems(kind) : PeerSend(item)
  \/ \E k \in 0..Len(wire) : \E c \in CutSizes(k) : Readable(k, c)
  \/ LocalClose
  \/ TransportFinish
  \/ TransportClose

Spec == Init /\ [][Next]_vars

\* The send side: every call of the API and the OutStreams, with a peer whose
\* items each arrive in one chunk.
PeerSendWhole(item) ==
  /\ items < MaxItems /\ ~closeFired /\ wire = <<>>
  /\ kind = "client" => started
  /\ IF items = 0
     THEN item \in PeerHandshakes(kind)
     ELSE item \in PeerControlFrames(kind # "client")
  /\ Install(doRead(Self, item))
  /\ items' = items + 1
  /\ UNCHANGED <<wire, headCut, calls, owrites, started, closeFired, finishFired>>

NextSend ==
  \/ SocketConnect
  \/ \E item \in PeerItems(kind) : PeerSendWhole(item)
  \/ Close
  \/ SendText
  \/ SendBinary
  \/ BeginBinary
  \/ SendPing
  \/ \E id \in 1..Len(outs), chunk \in {<<7>>, <<7, 8>>} : OutWrite(id, chunk)
  \/ \E id \in 1..Len(outs) : OutEnd(id)
  \/ \E id \in 1..Len(outs) : OutFinish(id)
  \/ TransportFinish
  \/ TransportClose

SpecSend == Init /\ [][NextSend]_vars

\* The assembly of messages: a valid handshake and data frames in chunks,
\* and the end of the transport.
NextData ==
  \/ SocketConnect
  \/ \E item \in PeerItems(kind) : PeerSendData(item)
  \/ \E k \in 0..Len(wire) : \E c \in CutSizes(k) : Readable(k, c)
  \/ TransportClose

SpecData == Init /\ [][NextData]_vars


\* ------------------------------------------------ the first frame header
\* The payloads of the frames whose header byte is chosen freely: none, the
\* letter 'p', and a byte that is no UTF-8 text.
HeaderPayloads == {<<>>, <<112>>, <<255>>}

\* The bytes of a frame with first byte b0, the mask bit as given and a
\* short payload, masked with PeerMask when the mask bit is set.
headerFrame(b0, masked, payload) ==
  <<b0, (IF masked THEN 128 ELSE 0) + Len(payload)>>
  \o (IF masked THEN PeerMask \o maskPayload(payload, PeerMask) ELSE payload)

\* The peer's valid handshake arrives in one chunk.
PeerHandshake ==
  /\ items = 0 /\ ~closeFired
  /\ kind = "client" => started
  /\ Install(doRead(Self, goodHandshake(kind)))
  /\ items' = 1
  /\ UNCHANGED <<wire, headCut, calls, owrites, started, closeFired, finishFired>>

\* The frame that follows the handshake arrives in one chunk: any first byte,
\* either mask bit.
ReadFrame(b0, masked, payload) ==
  /\ items = 1 /\ ~closeFired
  /\ Install(doRead(Self, headerFrame(b0, masked, payload)))
  /\ items' = 2
  /\ UNCHANGED <<wire, headCut, calls, owrites, started, closeFired, finishFired>>

\* Every frame header after a handshake, with local close() calls.
NextHeader ==
  \/ SocketConnect
  \/ PeerHandshake
  \/ \E b0 \in 0..255, masked \in BOOLEAN, payload \in HeaderPayloads :
       ReadFrame(b0, masked, payload)
  \/ LocalClose

SpecHeader == Init /\ [][NextHeader]_vars

\* ------------------------------------------------ one string, two chunkings
\* The byte strings a peer sends to a new connection: a handshake followed
\* by at most two frames.
ChunkStrings(k) ==
  LET fs == PeerFrames(k # "client")
      tails == {<<>>} \cup fs \cup {f \o g : f \in fs, g \in fs}
  IN  {h \o s : h \in PeerHandshakes(k), s \in tails}

\* doRead called once for every byte of b, in order.  (A call returns before
\* the next begins: its result is looked at before the next is made.)
RECURSIVE feedBytes(_, _)
\* m1: the connection after one call; b: the bytes still to come.
feedRest(m1, b) ==
  IF m1.readyState <= CLOSED THEN feedBytes(m1, b) ELSE m1

feedBytes(m, b) ==
  IF b = <<>> THEN m ELSE feedRest(doRead(m, <<Head(b)>>), Tail(b))

\* The peer sends a byte string to the connection, which has read nothing.
PeerSendString(b) ==
  /\ items = 0 /\ wire = <<>> /\ ~closeFired
  /\ kind = "client" => started
  /\ wire' = <<b>>
  /\ items' = 1
  /\ UNCHANGED <<connVars, headCut, calls, owrites, started, closeFired,
                 finishFired>>

\* The string arrives in a single chunk.
ReadWhole == Len(wire) = 1 /\ Readable(1, 0)

\* The string arrives one byte per 'readable' event, nothing else happening
\* in between.
ReadBytewise ==
  /\ Len(wire) = 1 /\ ~closeFired
  /\ Install(feedBytes(Self, wire[1]))
  /\ wire' = <<>>
  /\ UNCHANGED <<headCut, items, calls, owrites, started, closeFired, finishFired>>

NextChunk ==
  \/ SocketConnect
  \/ \E b \in ChunkStrings(kind) : PeerSendString(b)
  \/ ReadWhole
  \/ ReadBytewise

SpecChunk == Init /\ [][NextChunk]_vars

\* ------------------------------------------------------ closing handshake
\* The payloads of the close frames a peer sends: none, one byte, a code, a
\* code and a reason.
ClosePayloads == {<<>>, <<3>>, <<3, 232>>, <<3, 232, 98>>}

\* The bytes of the peer's close frame with the given payload.
peerCloseFrame(masked, payload) ==
  FrameBytes([t |-> "frame", fin |-> TRUE, opcode |-> 8, masked |-> masked,
              payload |-> payload], PeerMask)

\* The peer sends a handshake, then close frames; each arrives in one chunk.
PeerSendClose(item) ==
  /\ items < MaxItems /\ ~closeFired /\ wire = <<>>
  /\ kind = "client" => started
  /\ IF items = 0
     THEN item \in PeerHandshakes(kind)
     ELSE item \in {peerCloseFrame(kind # "client", p) : p \in ClosePayloads}
  /\ Install(doRead(Self, item))
  /\ items' = items + 1
  /\ UNCHANGED <<wire, headCut, calls, owrites, started, closeFired, finishFired>>

CloseItems(k) ==
  PeerHandshakes(k) \cup {peerCloseFrame(k # "client", p) : p \in ClosePayloads}

NextClose ==
  \/ SocketConnect
  \/ \E item \in CloseItems(kind) : PeerSendClose(item)
  \/ LocalClose
  \/ TransportFinish
  \/ TransportClose

SpecClose == Init /\ [][NextClose]_vars

\* socket.end() is followed by the socket's 'finish' event.
SpecCloseFair == SpecClose /\ WF_vars(TransportFinish)

\* ---------------------------------------------------------------- handshakes
\* A specification of the opening handshake: the peer's whole handshake
\* arrives in one chunk, any combination of its lines.

\* The line, or no line.
opt(c) == {<<>>, <<c>>}

\* The requests a peer sends: a request line, then the host, key, upgrade,
\* connection and version lines, each present (with a good or a bad value) or
\* absent, then possibly lines of another header (74).
Requests ==
  {<<first>> \o h \o k \o u \o c \o v \o j :
     first \in {71, 88}, h \in opt(72), k \in opt(75),
     u \in opt(85) \cup opt(68), c \in opt(67) \cup opt(69),
     v \in opt(86) \cup opt(87), j \in opt(74) \cup {<<74, 74>>}}

\* The responses a peer sends: a status line, then the upgrade, connection,
\* accept and protocol lines, each present (with a good or a bad value) or
\* absent.
Responses ==
  {<<status>> \o u \o c \o a \o p :
     status \in {83, 84}, u \in opt(85) \cup opt(68),
     c \in opt(67) \cup opt(69), a \in opt(65) \cup opt(66),
     p \in opt(80) \cup opt(81)}

\* socket 'readable' on a server: the request req is read in one chunk.
ReadRequest(req) ==
  /\ kind # "client" /\ items = 0 /\ ~closeFired
  /\ Install(doRead(Self, handshakeBytes(req)))
  /\ items' = 1
  /\ UNCHANGED <<wire, headCut, calls, owrites, started, closeFired, finishFired>>

\* socket 'readable' on a client that has sent its request: the response
\* resp is read in one chunk.
ReadResponse(resp) ==
  /\ kind = "client" /\ started /\ items = 0 /\ ~closeFired
  /\ Install(doRead(Self, handshakeBytes(resp)))
  /\ items' = 1
  /\ UNCHANGED <<wire, headCut, calls, owrites, started, closeFired, finishFired>>

NextHandshake ==
  \/ SocketConnect
  \/ \E req \in Requests : ReadRequest(req)
  \/ \E resp \in Responses : ReadResponse(resp)

SpecHandshake == InitOffering /\ [][NextHandshake]_vars

\* ---------------------------------------------------------------- subprotocols
\* A specification of the subprotocol selection: a server configured with
\* validProtocols reads a request that offers subprotocols.

\* The values of the option validProtocols.
ValidLists ==
  {<<>>, <<"x">>, <<"chat">>, <<"superchat">>, <<"chat", "superchat">>,
   <<"superchat", "chat">>, <<"0">>, <<"1">>, <<"1", "0">>}

\* The requests that offer subprotocols: the lines of a valid request, with
\* version 13 or version 8, then possibly a sec-websocket-protocol line.
OfferRequests ==
  {<<71, 72, 75, 85, 67, v>> \o p :
     v \in {86, 87},
     p \in opt(80) \cup opt(81) \cup opt(82) \cup opt(79) \cup opt(78)}

\* The state after the constructor, for a server with the option
\* validProtocols.
InitSelecting ==
  /\ Constructed
  /\ kind # "client"
  /\ protocols = <<>>
  /\ validProtocols \in ValidLists

NextSelect == \E req \in OfferRequests : ReadRequest(req)

SpecSelect == InitSelecting /\ [][NextSelect]_vars

\* ---------------------------------------------------------------- one OutStream
\* A specification of the OutStreams of a connection that stays OPEN: the
\* valid handshake, beginBinary, writes, end and 'finish'.
StreamChunks == {<<7>>, <<7, 8>>, <<9, 9, 9>>}

NextStream ==
  \/ SocketConnect
  \/ PeerHandshake
  \/ BeginBinary
  \/ \E id \in 1..Len(outs), chunk \in StreamChunks : OutWrite(id, chunk)
  \/ \E id \in 1..Len(outs) : OutEnd(id)
  \/ \E id \in 1..Len(outs) : OutFinish(id)

SpecStream == Init /\ [][NextStream]_vars

\* ---------------------------------------------------------------- SocketApp
\* A specification of the dispatcher of SocketApp: chains are registered
\* during setup, then the peer's valid handshake and text messages arrive,
\* each in one chunk.

\* The handlers the application registers: one that calls next() once, one
\* that never does, one that calls it twice, and one that calls it once and
\* then throws.
Handlers ==
  {[id |-> 1, nexts |-> 1, throws |-> FALSE],
   [id |-> 2, nexts |-> 0, throws |-> FALSE],
   [id |-> 3, nexts |-> 2, throws |-> FALSE],
   [id |-> 4, nexts |-> 1, throws |-> TRUE]}

\* The argument lists ...callback of a sign() call.
Callbacks ==
  {<<h>> : h \in Handlers} \cup {<<h, g>> : h \in Handlers, g \in Handlers}

\* The application calls sign(tag, ...callback) before the server has a
\* connection with a handshake.  (A handler of the noJSON chain that throws
\* throws out of the listener: left out.)
Sign(tag, callback) ==
  /\ kind = "app" /\ items = 0 /\ calls < MaxCalls
  /\ tag = "noJSON" => \A i \in DOMAIN callback : ~callback[i].throws
  /\ Install([Self EXCEPT !.signs = sign(signs, tag, callback)])
  /\ calls' = calls + 1
  /\ UNCHANGED <<wire, headCut, items, owrites, started, closeFired, finishFired>>

\* socket 'readable' on an AppConnection: a whole text frame with the text
\* str is read.
ReadText(str) ==
  /\ kind = "app" /\ items > 0 /\ items < MaxItems /\ ~closeFired
  /\ Install(doRead(Self, FrameBytes(createTextFrame(str, TRUE), PeerMask)))
  /\ items' = items + 1
  /\ UNCHANGED <<wire, headCut, calls, owrites, started, closeFired, finishFired>>

NextApp ==
  \/ \E tag \in Tags, callback \in Callbacks : Sign(tag, callback)
  \/ PeerHandshake
  \/ \E str \in AppTexts : ReadText(str)

SpecApp == Init /\ [][NextApp]_vars

\* ---------------------------------------------------------------- frame pairs
\* A specification of two data frames read in one chunk after the valid
\* handshake: every pair of opcode 0, 1 or 2, fin or not, with a payload of
\* length 0, 1 or 2.
PairFrames ==
  {[t |-> "frame", fin |-> fin, opcode |-> opcode, masked |-> kind # "client",
    payload |-> payload] :
     fin \in BOOLEAN, opcode \in {0, 1, 2},
     payload \in {<<>>, <<97>>, <<98, 99>>}}

\* socket 'readable' with the frames first and second to read.
ReadPair(first, second) ==
  /\ items = 1 /\ ~closeFired
  /\ Install(doRead(Self, FrameBytes(first, PeerMask) \o FrameBytes(second, PeerMask)))
  /\ items' = 2
  /\ UNCHANGED <<wire, headCut, calls, owrites, started, closeFired, finishFired>>

NextPair ==
  \/ SocketConnect
  \/ PeerHandshake
  \/ \E first \in PairFrames, second \in PairFrames : ReadPair(first, second)

SpecPair == Init /\ [][NextPair]_vars

\* ------------------------------------------------------ encoder to decoder
\* A specification of one frame made by the encoder with masked = true and
\* read in one chunk after the valid handshake, alone or followed by the
\* first byte of another frame.
\* A string of n ASCII characters, and n bytes of any value.
chars(n) == [i \in 1..n |-> 32 + (i % 95)]

octets(n) == [i \in 1..n |-> (7 * i) % 256]

\* Payload lengths on both sides of the step from the 7-bit to the 16-bit
\* length field.
ShortLengths == {0, 1, 125, 126}

\* What the exported constructors of frame.ts make with masked = true.
EncoderFrames ==
  {createTextFrame(chars(n), TRUE) : n \in ShortLengths}
  \cup {createBinaryFrame(octets(n), TRUE, first, fin) :
          n \in ShortLengths, first \in BOOLEAN, fin \in BOOLEAN}
  \cup {createCloseFrame(code, chars(1), TRUE) : code \in {0, 1000}}
  \cup {createPingFrame(chars(n), TRUE) : n \in ShortLengths}
  \cup {createPongFrame(chars(n), TRUE) : n \in ShortLengths}

\* The chunks: [f, rest, bytes], the frame, what follows it (nothing, or
\* the first byte of a frame) and the bytes of both; the mask key is one of
\* three.  The payloads on both sides of the step from the 16-bit to the
\* 64-bit length field go with one mask key and one rest.
Encodings ==
  {[f |-> f, rest |-> rest, bytes |-> FrameBytes(f, mask) \o rest] :
     f \in EncoderFrames,
     mask \in {PeerMask, <<0, 0, 0, 0>>, <<255, 128, 90, 7>>},
     rest \in {<<>>, <<129>>}}
  \cup {[f |-> createBinaryFrame(octets(n), TRUE, TRUE, TRUE), rest |-> <<129>>,
         bytes |-> FrameBytes(createBinaryFrame(octets(n), TRUE, TRUE, TRUE),
                              PeerMask) \o <<129>>] :
          n \in {65535, 65536}}

\* The peer sends a chunk to the open connection, which has read the
\* handshake and nothing else.
PeerEncodes(e) ==
  /\ items = 1 /\ readyState = OPEN /\ wire = <<>> /\ ~closeFired
  /\ wire' = <<e.bytes>>
  /\ items' = 2
  /\ UNCHANGED <<connVars, headCut, calls, owrites, started, closeFired,
                 finishFired>>

NextCodec ==
  \/ SocketConnect
  \/ PeerHandshake
  \/ \E e \in Encodings : PeerEncodes(e)
  \/ ReadWhole

SpecCodec == Init /\ [][NextCodec]_vars

\* ------------------------------------------------------- after the close
\* A specification of the send side with a peer that sends every kind of
\* frame: the calls of the API and the OutStreams, and after the handshake
\* text, continuation, close, ping and pong frames, a frame with RSV1 set and
\* an oversize frame, each arriving in one chunk.
PeerSendAny(item) ==
  /\ items < MaxItems /\ ~closeFired /\ wire = <<>>
  /\ kind = "client" => started
  /\ IF items = 0
     THEN item \in PeerHandshakes(kind)
     ELSE item \in PeerFrames(kind # "client")
                   \cup PeerControlFrames(kind # "client")
  /\ Install(doRead(Self, item))
  /\ items' = items + 1
  /\ UNCHANGED <<wire, headCut, calls, owrites, started, closeFired, finishFired>>

NextLast ==
  \/ SocketConnect
  \/ \E item \in PeerItems(kind) : PeerSendAny(item)
  \/ Close
  \/ SendText
  \/ SendBinary
  \/ BeginBinary
  \/ SendPing
  \/ \E id \in 1..Len(outs), chunk \in {<<7>>, <<7, 8>>} : OutWrite(id, chunk)
  \/ \E id \in 1..Len(outs) : OutEnd(id)
  \/ \E id \in 1..Len(outs) : OutFinish(id)
  \/ TransportFinish
  \/ TransportClose

SpecLast == Init /\ [][NextLast]_vars

\* ------------------------------------------------------- SocketApp's map
\* A specification of the map SocketApp keeps of its connections: sockets
\* are accepted, and each connection emits 'connect' at most once (while it
\* has emitted no 'close': a connection that emits 'close' has left
\* CONNECTING for good), and 'close' and 'error' at any time.
Accept(c, t) ==
  /\ kind = "app" /\ appStates[c] = "none"
  /\ Install(onConnection(Self, c, t))
  /\ UNCHANGED envVars

\* The connection c emits the event type.  For 'connect' the loop of the
\* callback ends with the token t: the token of c if that is no key of the
\* map, or else a new one that is none.
ConnEmits(c, type, t) ==
  /\ kind = "app" /\ appStates[c] \in {"accepted", "connected", "closed"}
  /\ type = "connect"
     => /\ appStates[c] = "accepted"
        /\ appConnections[t] = 0
        /\ appConnections[appTokens[c]] = 0 => t = appTokens[c]
  /\ type # "connect" => t = appTokens[c]
  /\ Install(CASE type = "connect" -> onConnect(Self, c, t)
               [] type = "close" -> onAppClose(Self, c)
               [] type = "error" -> onAppError(Self, c))
  /\ UNCHANGED envVars

NextMap ==
  \/ \E c \in AppConns, t \in Tokens : Accept(c, t)
  \/ \E c \in AppConns, type \in {"connect", "close", "error"}, t \in Tokens :
       ConnEmits(c, type, t)

SpecMap == Init /\ [][NextMap]_vars

\* ================================================================ claims
\* Number of 'close' events emitted so far.
closeCount == Cardinality({i \in DOMAIN events : events[i].type = "close"})

DataEvents == {"text", "binary", "pong"}

\* A step of Readable, and the chunk it hands to doRead.
IsRead == items' = items /\ wire' # wire

Delivered ==
  LET a == Flatten(wire)
  IN  SubSeq(a, 1, Len(a) - Len(Flatten(wire')))

\* The connection is OPEN with an empty receive buffer and no message in
\* progress.
Idle == readyState = OPEN /\ buffer = <<>> /\ frameBuffer = fbEmpty(kind)

\* The bytes of a data frame of the peer.
dataFrame(opcode, fin, payload) ==
  FrameBytes([t |-> "frame", fin |-> fin, opcode |-> opcode,
              masked |-> kind # "client", payload |-> payload], PeerMask)

\* C1: the 'close' event is emitted at most once, and exactly once when the
\* transport has closed.
C1_CloseExactlyOnce ==
  /\ closeCount <= 1
  /\ closeFired => closeCount = 1

\* C2: readyState never moves backwards, CLOSED is final and OPEN is entered
\* from CONNECTING only.
C2_ReadyStateMonotone ==
  [][/\ readyState' >= readyState
     /\ readyState' <= CLOSED
     /\ (readyState' = OPEN /\ readyState # OPEN) => readyState = CONNECTING]_vars

\* C2 witness: close() has been called on a connection that was opened and
\* had already closed, and it is CLOSED.
C2_Witness ==
  /\ readyState = CLOSED /\ closeCount >= 2
  /\ \E i \in DOMAIN events : events[i].type = "connect"

\* C3: a Connection that is idle and reads one unfragmented text frame emits
\* exactly one text event carrying the payload, no close event, and leaves
\* the assembly slot empty.
C3_TextFrameDelivered ==
  [][(IsRead /\ kind # "app" /\ Idle /\ Delivered = dataFrame(1, TRUE, <<97>>))
       => /\ events' = Append(events, Ev("text", 0, <<97>>))
          /\ frameBuffer' = fbEmpty(kind)]_vars

\* C4: an AppConnection that is idle and reads a binary message (one frame,
\* or a first frame and a final continuation) emits exactly one binary event
\* whose InStream holds the fragment payloads in order and is ended, and no
\* text event.
C4_BinaryMessageDelivered ==
  [][(IsRead /\ kind = "app" /\ Idle)
       => /\ Delivered = dataFrame(2, TRUE, <<1>>)
               => /\ events' = Append(events, Ev("binary", Len(streams) + 1, <<>>))
                  /\ streams' = Append(streams, [data |-> << <<1>> >>, ended |-> TRUE])
          /\ Delivered = dataFrame(2, FALSE, <<1, 2>>) \o dataFrame(0, TRUE, <<98>>)
               => /\ events' = Append(events, Ev("binary", Len(streams) + 1, <<>>))
                  /\ streams' = Append(streams,
                                       [data |-> << <<1, 2>>, <<98>> >>, ended |-> TRUE])
     ]_vars

\* C5: an AppConnection that is idle and reads the fragments of a text
\* payload p (fragment sizes 1; 1+1; 0+1) emits exactly one text event
\* carrying p and no close event.
C5_TextReassembled ==
  [][(IsRead /\ kind = "app" /\ Idle)
       => /\ Delivered = dataFrame(1, TRUE, <<97>>)
               => events' = Append(events, Ev("text", 0, <<97>>))
          /\ Delivered = dataFrame(1, FALSE, <<97>>) \o dataFrame(0, TRUE, <<98>>)
               => events' = Append(events, Ev("text", 0, <<97, 98>>))
          /\ Delivered = dataFrame(1, FALSE, <<>>) \o dataFrame(0, TRUE, <<98>>)
               => events' = Append(events, Ev("text", 0, <<98>>))
     ]_vars

\* C6: every text, binary or pong event is preceded by the 'connect' event,
\* and a connection that is still CONNECTING has extracted no frame: it has
\* emitted no data event and created no InStream.
C6_NoDataBeforeConnect ==
  /\ \A i \in DOMAIN events :
       events[i].type \in DataEvents
         => \E j \in 1..(i - 1) : events[j].type = "connect"
  /\ readyState = CONNECTING
       => /\ \A i \in DOMAIN events : events[i].type \notin DataEvents
          /\ streams = <<>>

\* C6 witness: a handshake was refused and frames that arrived after it lie
\* unread in the buffer of the CONNECTING connection.
C6_Witness ==
  /\ readyState = CONNECTING /\ items >= 2 /\ wire = <<>>
  /\ Len(buffer) > Len(goodHandshake(kind))

\* C7: no text, binary or pong event follows a 'close' event.
C7_NoDataAfterClose ==
  \A i, j \in DOMAIN events :
    (i < j /\ events[i].type = "close") => events[j].type \notin DataEvents

\* C8: the receive buffer never holds more than maxBufferLength bytes once
\* doRead has returned.
C8_BufferBounded == Len(buffer) <= maxBufferLength

\* The receive buffer b starts with a frame whose announced length exceeds
\* the bytes available.
incompleteFrame(b) == extractFrame([Self EXCEPT !.buffer = b]).res = "undefined"

\* C9: when an OPEN connection reads and its buffer then starts with an
\* incomplete frame and is longer than maxBufferLength, it writes a close
\* frame with code 1009, emits close(1009), becomes CLOSING, and delivers
\* nothing of the frame.
C9_OversizeCloses ==
  [][(/\ IsRead /\ readyState = OPEN
      /\ Len(buffer \o Delivered) > maxBufferLength
      /\ incompleteFrame(buffer \o Delivered))
       => /\ readyState' = CLOSING
          /\ written' = Append(written,
                               createCloseFrame(1009, undefined, sendMasked(Self)))
          /\ events' = Append(events, Ev("close", 1009, undefined))
          /\ buffer' = buffer \o Delivered
          /\ streams' = streams /\ frameBuffer' = frameBuffer]_vars

\* C9 witness: the connection was opened, is CLOSING after close(1009) and
\* still holds the oversize incomplete frame.
C9_Witness ==
  /\ readyState = CLOSING /\ Len(buffer) > maxBufferLength
  /\ incompleteFrame(buffer)
  /\ events # <<>> /\ events[Len(events)] = Ev("close", 1009, undefined)
  /\ written[Len(written)] = createCloseFrame(1009, undefined, sendMasked(Self))

\* An OutStream exists whose 'finish' handler has not run.
Unfinished == \E id \in DOMAIN outs : ~outs[id].finished

IsSendCall == SendText \/ SendBinary \/ BeginBinary

\* C10: while an OutStream has not finished, sendText, sendBinary and
\* beginBinary write nothing, emit one 'error' event and leave the outStream
\* slot and the stream alone; at most one OutStream is unfinished at a time
\* and the slot never holds a finished one.
C10_OneOutStream ==
  /\ [](/\ \A a, b \in DOMAIN outs :
             a # b => outs[a].finished \/ outs[b].finished
        /\ outStream # 0 => outStream \in DOMAIN outs /\ ~outs[outStream].finished)
  /\ [][(Unfinished /\ IsSendCall)
          => /\ written' = written
             /\ \E c \in {ErrTextDuringBinary, ErrBinaryDuringBinary, ErrNotOpen} :
                  events' = Append(events, Ev("error", c, <<>>))
             /\ outStream' = outStream
             /\ outs' = outs]_vars

\* C10 witness: sendText was refused while the OutStream of beginBinary is
\* attached and unfinished, and no text frame was written.
C10_Witness ==
  /\ outStream # 0 /\ Unfinished
  /\ \E i \in DOMAIN events : events[i] = Ev("error", ErrTextDuringBinary, <<>>)
  /\ \A i \in DOMAIN written : written[i].opcode # 1

\* The frames written to the socket, without the HTTP messages.
framesWritten == SelectSeq(written, LAMBDA f : f.t = "frame")

\* The mask bit of the frame f as it is on the wire.
maskBit(f) == FrameBytes(f, PeerMask)[2] \div 128

\* C11: every frame a client-role connection writes has the mask bit set,
\* every frame a server-role connection writes has it clear.
C11_MaskBitFollowsRole ==
  \A i \in DOMAIN framesWritten :
    maskBit(framesWritten[i]) = (IF kind = "client" THEN 1 ELSE 0)

\* C11 witness: a client has written a ping, and a pong in reply to the
\* peer's ping.
C11_Witness ==
  /\ kind = "client"
  /\ \E i, j \in DOMAIN framesWritten :
       framesWritten[i].opcode = 9 /\ framesWritten[j].opcode = 10

\* The close frame that close(1002) writes, and the event it emits.
close1002Frame == createCloseFrame(1002, undefined, sendMasked(Self))

close1002Event == Ev("close", 1002, undefined)

\* C12: a frame whose mask bit violates the receiver's role (masked for a
\* client, unmasked for a server), read by a connection that is OPEN or
\* CLOSING with an empty buffer, is not processed (no text, binary or pong
\* event, no pong written) and the connection closes with code 1002: OPEN
\* writes the close frame and becomes CLOSING, CLOSING ends the transport and
\* becomes CLOSED, and both emit close(1002).
C12_MaskViolationCloses ==
  [][\A b0 \in 0..255, payload \in HeaderPayloads :
       (/\ ReadFrame(b0, kind = "client", payload)
        /\ readyState \in {OPEN, CLOSING} /\ buffer = <<>>)
         => /\ events' = Append(events, close1002Event)
            /\ streams' = streams /\ frameBuffer' = frameBuffer
            /\ buffer' = headerFrame(b0, kind = "client", payload)
            /\ IF readyState = OPEN
               THEN /\ readyState' = CLOSING
                    /\ written' = Append(written, close1002Frame)
                    /\ endCalls' = endCalls
               ELSE /\ readyState' = CLOSED
                    /\ written' = written
                    /\ endCalls' = endCalls + 1]_vars

\* C12 witness: a server has read an unmasked ping and is CLOSING after
\* close(1002), with no pong written.
C12_Witness ==
  /\ kind = "server" /\ readyState = CLOSING
  /\ buffer = headerFrame(137, FALSE, <<112>>)
  /\ events[Len(events)] = close1002Event
  /\ \A i \in DOMAIN framesWritten : framesWritten[i].opcode # 10

\* A frame header that is a protocol error by itself: an RSV bit set, an
\* opcode that is none of 0, 1, 2, 8, 9, 10, or a control opcode without fin.
malformedHeader(b0) ==
  \/ (b0 \div 16) % 8 # 0
  \/ (b0 % 16) \notin {0, 1, 2, 8, 9, 10}
  \/ (b0 % 16) >= 8 /\ b0 < 128

\* C13: an OPEN connection with an empty buffer that reads a frame with a
\* malformed header (whatever its mask bit) does not process it, writes a
\* close frame with code 1002, emits close(1002) and becomes CLOSING.
C13_MalformedHeaderCloses ==
  [][\A b0 \in 0..255, masked \in BOOLEAN, payload \in HeaderPayloads :
       (/\ ReadFrame(b0, masked, payload) /\ malformedHeader(b0)
        /\ readyState = OPEN /\ buffer = <<>>)
         => /\ written' = Append(written, close1002Frame)
            /\ events' = Append(events, close1002Event)
            /\ readyState' = CLOSING
            /\ buffer' = headerFrame(b0, masked, payload)
            /\ streams' = streams /\ frameBuffer' = frameBuffer]_vars

\* C13 witness: a connection has read a correctly masked ping without fin
\* (first byte 0x09) and is CLOSING after close(1002), the frame unread.
C13_Witness ==
  /\ readyState = CLOSING
  /\ buffer = headerFrame(9, kind # "client", <<112>>)
  /\ events[Len(events)] = close1002Event
  /\ written[Len(written)] = close1002Frame

\* The events of m that a listener for connect, text, binary, pong and close
\* sees.
frameEvents(m) ==
  SelectSeq(m.events,
            LAMBDA e : e.type \in {"connect", "text", "binary", "pong", "close"})

\* C14: a byte string delivered one byte per doRead call produces the same
\* connect, text, binary, pong and close events and the same final
\* readyState as the string delivered in a single chunk.
C14_ChunkingEquivalent ==
  [][ReadBytewise
       => LET whole == doRead(Self, wire[1])
          IN  /\ frameEvents([events |-> events']) = frameEvents(whole)
              /\ readyState' = whole.readyState]_vars

\* The bytes 'bye', the reason of the local close() calls.
bye == <<98, 121, 101>>

\* C15: close(1000, 'bye') on an OPEN connection writes one close frame with
\* payload 0x03 0xE8 'bye', sets CLOSING and emits close(1000, 'bye'); the
\* peer's close frame read in CLOSING ends the transport, writes nothing and
\* emits nothing; the transport's events then emit nothing either, and the
\* connection whose transport was ended becomes CLOSED.
C15_LocalCloseHandshake ==
  /\ [][/\ (LocalClose /\ readyState = OPEN)
             => /\ written' = Append(written,
                                     createCloseFrame(1000, bye, sendMasked(Self)))
                /\ written'[Len(written')].payload = <<3, 232>> \o bye
                /\ readyState' = CLOSING
                /\ events' = Append(events, Ev("close", 1000, bye))
        /\ \A p \in ClosePayloads :
             (/\ PeerSendClose(peerCloseFrame(kind # "client", p))
              /\ readyState = CLOSING /\ buffer = <<>>)
               => /\ endCalls' = endCalls + 1
                  /\ written' = written /\ events' = events
                  /\ readyState' = CLOSING
        /\ ((TransportFinish \/ TransportClose) /\ readyState = CLOSING)
             => events' = events /\ readyState' = CLOSED]_vars
  /\ (readyState = CLOSING /\ endCalls > 0) ~> (readyState = CLOSED)

\* C15 witness: after close(1000, 'bye') and the peer's close frame the
\* transport has finished; the connection is CLOSED and has emitted connect
\* and one close event.
C15_Witness ==
  /\ readyState = CLOSED /\ finishFired /\ items = 2 /\ calls = 1
  /\ events = <<Ev("connect", 0, <<>>), Ev("close", 1000, bye)>>
  /\ framesWritten = <<createCloseFrame(1000, bye, sendMasked(Self))>>

\* C16: a close frame read by an OPEN connection makes it write a reply
\* close frame, become CLOSED and emit close(code, reason), the listener
\* seeing the reply written and the state CLOSED; code is the first two
\* payload bytes (big-endian) and reason the rest; a payload shorter than two
\* bytes gives code 1005, an empty reason and a reply with an empty payload.
C16_PeerCloseAnswered ==
  [][\A p \in ClosePayloads :
       (/\ PeerSendClose(peerCloseFrame(kind # "client", p))
        /\ readyState = OPEN /\ buffer = <<>>)
         => LET short == Len(p) < 2
                code == IF short THEN 1005 ELSE p[1] * 256 + p[2]
                reason == IF short THEN <<>> ELSE SubSeq(p, 3, Len(p))
                reply == written'[Len(written')]
            IN  /\ Len(written') = Len(written) + 1
                /\ SubSeq(written', 1, Len(written)) = written
                /\ reply.t = "frame" /\ reply.opcode = 8 /\ reply.fin
                /\ reply.payload = (IF short THEN <<>> ELSE p)
                /\ readyState' = CLOSED
                /\ events' = Append(events, Ev("close", code, reason))
                /\ seen' = Append(seen, [readyState |-> CLOSED,
                                         writes |-> Len(written')])
                /\ endCalls' = endCalls]_vars

\* C16 witness: a one-byte close payload was answered: close(1005, '') was
\* emitted in CLOSED after a close frame without payload was written.
C16_Witness ==
  /\ readyState = CLOSED /\ items = 2 /\ calls = 0
  /\ events[Len(events)] = Ev("close", 1005, <<>>)
  /\ seen[Len(seen)] = [readyState |-> CLOSED, writes |-> Len(written)]
  /\ written[Len(written)].opcode = 8 /\ written[Len(written)].payload = <<>>

\* C17: when the socket emits 'finish' or 'close', the connection emits
\* close(1006, '') if it is CONNECTING or OPEN and nothing otherwise, writes
\* nothing, and is CLOSED afterwards.
C17_TransportCloseEmits1006 ==
  [][(TransportFinish \/ TransportClose)
       => /\ readyState' = CLOSED
          /\ written' = written
          /\ IF readyState \in {CONNECTING, OPEN}
             THEN events' = Append(events, Ev("close", 1006, <<>>))
             ELSE events' = events]_vars

\* C17 witness: the socket has emitted 'finish' and then 'close' on a
\* connection that was CONNECTING; close(1006, '') was emitted once.
C17_Witness ==
  /\ finishFired /\ closeFired /\ readyState = CLOSED
  /\ events = <<Ev("close", 1006, <<>>)>>

\* C18: a ping read by an OPEN connection makes it write one pong frame with
\* the same payload and emit nothing; a ping read when it is not OPEN writes
\* and emits nothing; a pong read emits pong(payload) and writes nothing.
C18_PingAnsweredPongEmitted ==
  [][\A p \in HeaderPayloads :
       /\ (ReadFrame(137, kind # "client", p) /\ buffer = <<>>)
            => /\ events' = events
               /\ IF readyState = OPEN
                  THEN /\ Len(written') = Len(written) + 1
                       /\ SubSeq(written', 1, Len(written)) = written
                       /\ written'[Len(written')].opcode = 10
                       /\ written'[Len(written')].payload = p
                  ELSE written' = written
       /\ (/\ ReadFrame(138, kind # "client", p) /\ buffer = <<>>
           /\ readyState \in {OPEN, CLOSING})
            => /\ events' = Append(events, Ev("pong", 0, toString(p)))
               /\ written' = written]_vars

\* The handshake msg has the line c after its first line.
hasLine(msg, c) == \E i \in 2..Len(msg) : msg[i] = c

\* The request is a GET with host, key, upgrade: websocket, connection:
\* upgrade and version 13.
validRequest(req) ==
  /\ req[1] = 71
  /\ hasLine(req, 72) /\ hasLine(req, 75)
  /\ hasLine(req, 85) /\ hasLine(req, 67)
  /\ hasLine(req, 86)

\* What a server does with a request: answers a valid one with 101, becomes
\* OPEN and emits 'connect' once; answers any other with 400, ends the socket
\* and stays CONNECTING.
requestAnswered(req) ==
  IF validRequest(req)
  THEN /\ written' = Append(written, httpMessage(101))
       /\ readyState' = OPEN
       /\ events' = Append(events, Ev("connect", 0, <<>>))
       /\ endCalls' = endCalls
  ELSE /\ written' = Append(written, httpMessage(400))
       /\ endCalls' = endCalls + 1
       /\ readyState' = CONNECTING
       /\ events' = events

\* C19 (amended): a server that reads a whole request of at most
\* maxBufferLength bytes writes the 101 response, becomes OPEN and emits
\* 'connect' exactly once if and only if the request is a GET with host, key,
\* upgrade: websocket, connection: upgrade and version 13; otherwise it writes
\* 400, ends the socket and does not become OPEN.
C19_ServerHandshake ==
  [][\A req \in Requests :
       (ReadRequest(req) /\ Len(handshakeBytes(req)) <= maxBufferLength)
         => requestAnswered(req)]_vars

\* C19 as stated, for a request of any size.
C19_ServerHandshakeAnySize ==
  [][\A req \in Requests : ReadRequest(req) => requestAnswered(req)]_vars

\* A server is OPEN after a valid request: it wrote 101 and emitted 'connect'.
C19_Witness ==
  /\ kind # "client" /\ items = 1
  /\ readyState = OPEN
  /\ written = <<httpMessage(101)>>
  /\ events = <<Ev("connect", 0, <<>>)>>
  /\ headers["sec-websocket-version"] = "13"

\* The subprotocol the response chooses, "" if it chooses none.
chosenProtocol(resp) ==
  IF hasLine(resp, 80) THEN "x" ELSE IF hasLine(resp, 81) THEN "y" ELSE ""

\* The response has the 101 status line, upgrade: websocket, connection:
\* upgrade, the accept hash of the client's key, and a subprotocol the client
\* offered, or none if it offered none.
validResponse(resp) ==
  /\ resp[1] = 83
  /\ hasLine(resp, 85) /\ hasLine(resp, 67)
  /\ hasLine(resp, 65) /\ LineValue(65) = acceptHash(key)
  /\ IF protocols # <<>>
     THEN \E i \in DOMAIN protocols : protocols[i] = chosenProtocol(resp)
     ELSE chosenProtocol(resp) = ""

\* C20: a client becomes OPEN on a response only if the response has the 101
\* status line, valid upgrade and connection headers, the accept hash of the
\* client's key and a subprotocol that follows the rule; on any other
\* response it emits 'error', ends the socket and stays CONNECTING.
C20_ClientHandshake ==
  [][\A resp \in Responses :
       ReadResponse(resp)
         => /\ readyState' = OPEN => validResponse(resp)
            /\ ~validResponse(resp)
                 => /\ events' = Append(events, Ev("error", ErrHandshake, <<>>))
                    /\ endCalls' = endCalls + 1
                    /\ readyState' = CONNECTING]_vars

\* A client that offered the subprotocol x is OPEN after a response that
\* chose x.
C20_Witness ==
  /\ kind = "client" /\ items = 1
  /\ protocols = <<"x">>
  /\ readyState = OPEN
  /\ headers["sec-websocket-protocol"] = "x"
  /\ headers["sec-websocket-accept"] = acceptHash(key)
  /\ events = <<Ev("connect", 0, <<>>)>>

\* The subprotocols the request offers, in order.
offeredBy(req) ==
  IF \E c \in {80, 81, 82, 79, 78} : hasLine(req, c)
  THEN splitProtocols(LineValue(CHOOSE c \in {80, 81, 82, 79, 78} : hasLine(req, c)))
  ELSE <<>>

\* The first element of offered that appears in valid, "" if there is none.
RECURSIVE firstCommon(_, _)
firstCommon(offered, valid) ==
  IF offered = <<>> THEN ""
  ELSE IF \E j \in DOMAIN valid : valid[j] = Head(offered) THEN Head(offered)
  ELSE firstCommon(Tail(offered), valid)

\* C21: a server with validProtocols that answers a valid request selects the
\* first subprotocol of the offered list that appears in validProtocols, none
\* if there is no such element, and its 101 response carries the selected
\* subprotocol.
C21_FirstOfferedValidSelected ==
  [][\A req \in OfferRequests :
       (ReadRequest(req) /\ validRequest(req))
         => /\ protocol' = firstCommon(offeredBy(req), validProtocols)
            /\ written' = Append(written, switchingProtocols(protocol'))]_vars

\* The payloads of the frames fs, in order.
payloads(fs) == [i \in DOMAIN fs |-> fs[i].payload]

\* C22: for every OutStream of a connection that stays OPEN, each write that
\* brings the accumulated bytes to binaryFragmentation writes one frame with
\* fin = 0 and resets the accumulator, and any other write writes nothing;
\* the first frame of the stream has opcode 2 and the later ones opcode 0;
\* only the frame written on finish, the last one, has fin = 1; and the frame
\* payloads concatenated are the chunks concatenated (less the bytes still
\* accumulated, before the finish).
C22_OutStreamFragments ==
  /\ [](\A id \in DOMAIN outs :
          LET o == outs[id]
          IN  /\ \A i \in DOMAIN o.frames :
                   /\ o.frames[i].opcode = (IF i = 1 THEN 2 ELSE 0)
                   /\ o.frames[i].fin <=> (o.finished /\ i = Len(o.frames))
              /\ o.finished => o.frames # <<>>
              /\ Flatten(payloads(o.frames))
                   \o (IF o.finished THEN <<>> ELSE o.buffer)
                 = Flatten(o.chunks))
  /\ [][\A id \in DOMAIN outs, chunk \in StreamChunks :
          OutWrite(id, chunk) =>
            LET buf == outs[id].buffer \o chunk
            IN  IF Len(buf) >= binaryFragmentation
                THEN /\ written' = Append(written,
                           [t |-> "frame", fin |-> FALSE,
                            opcode |-> IF outs[id].frames = <<>> THEN 2 ELSE 0,
                            masked |-> kind = "client", payload |-> buf])
                     /\ outs'[id].frames = Append(outs[id].frames, written'[Len(written')])
                     /\ outs'[id].buffer = <<>>
                ELSE /\ written' = written
                     /\ outs'[id].frames = outs[id].frames
                     /\ outs'[id].buffer = buf]_vars

\* An OutStream has finished after two writes that each reached
\* binaryFragmentation: it wrote three frames, the last one empty.
C22_Witness ==
  \E id \in DOMAIN outs :
    /\ outs[id].finished /\ readyState = OPEN
    /\ Len(outs[id].frames) = 3
    /\ outs[id].frames[3].payload = <<>>
    /\ Len(outs[id].chunks) = 2

\* C23: sendText, sendBinary, beginBinary and sendPing called on a connection
\* that is not OPEN write nothing, emit exactly one 'error' event and leave
\* readyState, the receive buffer, the assembly slot and the outStream slot as
\* they are.
C23_SendWhenNotOpen ==
  [][((SendText \/ SendBinary \/ BeginBinary \/ SendPing) /\ readyState # OPEN)
       => /\ written' = written
          /\ endCalls' = endCalls
          /\ events' = Append(events, Ev("error", ErrNotOpen, <<>>))
          /\ UNCHANGED <<readyState, buffer, frameBuffer, outStream, outs>>]_vars

\* A send call on a CLOSING connection, after a close(), has just emitted
\* its error.
C23_Witness ==
  /\ readyState = CLOSING /\ calls = 2
  /\ events # <<>>
  /\ events[Len(events)] = Ev("error", ErrNotOpen, <<>>)
  /\ seen[Len(seen)].readyState = CLOSING

\* The event type was emitted by the connection.
emitted(type) == \E i \in DOMAIN events : events[i].type = type

\* The connection wrote the 101 response: its handshake succeeded.
handshakeSucceeded ==
  \E i \in DOMAIN written : written[i].t = "http" /\ written[i].opcode = 101

\* C24: the lib Server emits 'connection' exactly once for a connection whose
\* handshake succeeded and never for another one; between two handlers its
\* registry holds, once, the connection that has emitted 'connect' and not
\* yet 'close', and nothing else; a registered connection is OPEN.
C24_RegistryFollowsConnections ==
  kind = "server" =>
    /\ connectionEvents = (IF handshakeSucceeded THEN <<conn>> ELSE <<>>)
    /\ connections = (IF emitted("connect") /\ ~emitted("close")
                      THEN <<conn>> ELSE <<>>)
    /\ connections # <<>> => readyState = OPEN

\* A connection of a server was registered and, after its 'close', is no
\* longer.
C24_Witness ==
  /\ kind = "server"
  /\ connectionEvents = <<conn>>
  /\ connections = <<>>
  /\ emitted("close")

\* What the dispatcher invoked in this step.
invokedNow == SubSeq(invoked', Len(invoked) + 1, Len(invoked'))

\* The chain the dispatcher selects for a text with a sign: the chain of the
\* sign, 'unknow' if the sign has none.
selectedTag(str) ==
  IF signsGet(signs, JSONparse(str).sign).registered
  THEN JSONparse(str).sign ELSE "unknow"

\* C25: for an inbound text message with a sign, the handlers of the selected
\* chain are invoked in registration order, each at most once, and a handler
\* is invoked only if the handler before it has called next().
C25_ChainInOrderAfterNext ==
  [][\A c \in {97, 122} :
       ReadText(signText(c)) =>
         LET tag == selectedTag(signText(c))
             cbs == signsGet(signs, tag).cbs
             own == SelectSeq(invokedNow, LAMBDA e : e.sign = tag)
         IN  /\ Len(own) <= Len(cbs)
             /\ \A k \in DOMAIN own :
                  /\ own[k].i = k - 1
                  /\ own[k].h = cbs[k].id
                  /\ k > 1 => cbs[k - 1].nexts > 0]_vars

\* Every handler invoked in this step belongs to the chain of tag and was
\* called with arg.
routedTo(tag, arg) ==
  \A k \in DOMAIN invokedNow : invokedNow[k].sign = tag /\ invokedNow[k].arg = arg

\* C26: an inbound text message goes to exactly one chain: a text with a sign
\* to the chain of the sign, called with data, or to the 'unknow' chain if the
\* sign has none, and to nothing if 'unknow' has none either; a text that is
\* not JSON to the 'noJSON' chain, called with the text.
C26_RoutedToOneChain ==
  [][/\ \A c \in {97, 122} :
          ReadText(signText(c)) =>
            LET tag == selectedTag(signText(c))
            IN  /\ routedTo(tag, JSONparse(signText(c)).data)
                /\ (invokedNow # <<>>) <=> (signsGet(signs, tag).cbs # <<>>)
     /\ ReadText(<<104, 105>>) =>
          /\ routedTo("noJSON", <<104, 105>>)
          /\ (invokedNow # <<>>) <=> (signsGet(signs, "noJSON").cbs # <<>>)]_vars

\* C27: a lib Connection that is OPEN with no message in progress and reads a
\* continuation frame (opcode 0, fin or not, correctly masked), here as the
\* first frame after the handshake, creates no InStream, emits neither
\* 'binary' nor 'text', and closes with code 1002.
C27_StrayContinuationCloses ==
  [][\A b0 \in {0, 128}, payload \in HeaderPayloads :
       (/\ ReadFrame(b0, kind # "client", payload)
        /\ kind # "app" /\ readyState = OPEN /\ buffer = <<>>
        /\ frameBuffer = fbEmpty(kind))
         => /\ streams' = streams
            /\ events' = Append(events, close1002Event)
            /\ written' = Append(written, close1002Frame)
            /\ readyState' = CLOSING]_vars

\* C28: an AppConnection that reads a first data frame with fin = 0 (opcode
\* 1 or 2, payload empty or not) and then a frame with opcode 1 or 2 treats
\* the second frame as a protocol error: after what the first frame alone
\* does, it starts no message, emits only close(1002), writes the close
\* frame and becomes CLOSING.
C28_InterleavedDataFrameCloses ==
  [][\A first \in PairFrames, second \in PairFrames :
       (/\ ReadPair(first, second) /\ kind = "app"
        /\ readyState = OPEN /\ buffer = <<>> /\ frameBuffer = fbEmpty(kind)
        /\ first.opcode \in {1, 2} /\ ~first.fin
        /\ second.opcode \in {1, 2})
         => LET m1 == doRead(Self, FrameBytes(first, PeerMask))
            IN  /\ events' = Append(m1.events, close1002Event)
                /\ written' = Append(m1.written, close1002Frame)
                /\ streams' = m1.streams
                /\ frameBuffer' = m1.frameBuffer
                /\ readyState' = CLOSING]_vars

\* C29: a connection that is CLOSED has no InStream that is not ended in its
\* assembly slot and no OutStream in its outStream slot.
C29_ClosedHasNoStreams ==
  readyState = CLOSED =>
    /\ outStream = 0
    /\ frameBuffer.tag = "InStream" => streams[frameBuffer.id].ended

\* C30: the 'finish' of an OutStream whose connection is not OPEN writes no
\* frame, so the bytes it had accumulated are never sent; after the 'finish'
\* of an OutStream, OPEN or not, the outStream slot is empty; and beginBinary
\* on an OPEN connection whose OutStreams have all finished gives a new
\* OutStream.
C30_FinishClearsSlot ==
  [][/\ \A id \in DOMAIN outs :
          OutFinish(id) =>
            /\ outStream' = 0
            /\ readyState # OPEN =>
                 /\ written' = written
                 /\ outs'[id].frames = outs[id].frames
     /\ (/\ BeginBinary /\ readyState = OPEN
         /\ \A id \in DOMAIN outs : outs[id].finished)
          => /\ Len(outs') = Len(outs) + 1
             /\ outStream' = Len(outs')
             /\ events' = events]_vars

\* An OutStream with a byte accumulated has finished on a connection that
\* had become CLOSING: it wrote no frame and the slot is empty.
C30_Witness ==
  /\ readyState = CLOSING /\ outStream = 0
  /\ \E id \in DOMAIN outs :
       /\ outs[id].finished
       /\ outs[id].chunks # <<>> /\ outs[id].buffer # <<>>
       /\ outs[id].frames = <<>>

\* C31: a frame made by the encoder with masked = true, of a payload length
\* on either side of 125/126 and of 65535/65536, is taken from the buffer by
\* the extractFrame of a server-role connection as the same fin, opcode and
\* payload (what it hands to processFrame), and what follows the frame stays
\* in the buffer; the extractFrame of a client-role connection answers false
\* to the same bytes, and the connection closes with 1002.
C31_CodecRoundTrip ==
  [][(ReadWhole /\ items = 2)
       => \A e \in Encodings :
            wire[1] = e.bytes
            => LET r == extractFrame([Self EXCEPT !.buffer = e.bytes])
                   pf == processFrame([Self EXCEPT !.buffer = e.rest],
                                      e.f.fin, e.f.opcode, e.f.payload)
               IN  IF kind = "client"
                   THEN /\ r.res = "false"
                        /\ readyState' = CLOSING
                        /\ written' = Append(written, close1002Frame)
                   ELSE /\ r.res = (IF pf.ok THEN "true" ELSE "false")
                        /\ r.m = pf.m
                        /\ buffer' = e.rest]_vars

\* A SocketApp connection has read a text frame of 126 characters followed
\* by one more byte: the text was emitted, the byte stays.
C31_Witness ==
  /\ kind = "app" /\ items = 2 /\ wire = <<>>
  /\ buffer = <<129>>
  /\ events[Len(events)] = Ev("text", 0, chars(126))

\* C32: a close frame is the last frame a connection writes: whatever is
\* called or read afterwards, no frame follows a close frame in what was
\* written to the socket.
C32_CloseFrameIsLast ==
  \A i \in DOMAIN written :
    (written[i].t = "frame" /\ written[i].opcode = 8)
    => \A j \in (i + 1)..Len(written) : written[j].t # "frame"

\* The connection closed with 1002 on a frame with RSV1 set; after that
\* sendText was called, which emitted an error, and one more frame was read:
\* the close frame is still the last thing written.
C32_Witness ==
  /\ items = 3 /\ calls > 0
  /\ written[Len(written)] = close1002Frame
  /\ \E i \in DOMAIN events :
       /\ events[i] = close1002Event
       /\ \E j \in (i + 1)..Len(events) : events[j] = Ev("error", ErrNotOpen, <<>>)

\* C33: a server-role connection that has answered a handshake with 400 Bad
\* Request (and ended the socket) writes nothing more and does not end the
\* socket again when more bytes are read.
C33_NoWriteAfterReject ==
  [][(IsRead /\ kind # "client"
      /\ \E i \in DOMAIN written : written[i] = httpMessage(400))
       => (written' = written /\ endCalls' = endCalls)]_vars

\* C34: a connection registered in the map of SocketApp stays registered
\* until its own 'close' or 'error' event: no event of another connection
\* removes it.
C34_RegisteredUntilOwnEvent ==
  [][\A c \in AppConns, t \in Tokens :
       (appConnections[t] = c
        /\ ~ConnEmits(c, "close", t) /\ ~ConnEmits(c, "error", t))
       => appConnections'[t] = c]_vars

\* C35: the 'noJSON' chain is not invoked for a text that parsed as JSON and
\* was dispatched to the chain of its sign or to 'unknow', whatever the
\* handlers of that chain do.
C35_NoJSONOnlyForUnparsed ==
  [][\A str \in AppTexts :
       (ReadText(str) /\ JSONparse(str).parsed /\ JSONparse(str).bound)
       => \A k \in DOMAIN invokedNow : invokedNow[k].sign # "noJSON"]_vars

====
